---- MODULE Spec2Model ----
(***************************************************************************)
(* Purchasing ledger (src/src/App.jsx): the in-memory invoice and line     *)
(* collections, the overlays that edit them, the numeric text parser, the  *)
(* line calculator and the lump-discount allocation.                       *)
(*                                                                         *)
(* Numbers.  A JavaScript number is modelled as a decimal floating-point   *)
(* value [m |-> mantissa, e |-> exponent] = m * 10^e with at most Prec     *)
(* significant digits; every arithmetic operation rounds its exact result  *)
(* to Prec digits, ties to even, as IEEE-754 does with 53 bits.  NaN and   *)
(* the infinities do not occur: every division of the code is guarded by   *)
(* a test that its divisor is positive.  Negative zero is written as zero: *)
(* the code only compares it, clamps it or prints it, and in all three it  *)
(* behaves as zero.                                                        *)
(*                                                                         *)
(* Text.  A JavaScript string is a sequence of one-character strings.      *)
(***************************************************************************)
EXTENDS Integers, Sequences, FiniteSets, TLC

\* significant decimal digits kept by an arithmetic operation
Prec == 5

----------------------------------------------------------------------------
(* Decimal floating point                                                  *)

RECURSIVE Pow10(_)
Pow10(k) == IF k <= 0 THEN 1 ELSE 10 * Pow10(k - 1)

Abs(n) == IF n < 0 THEN -n ELSE n

RECURSIVE NumDigits(_)
NumDigits(n) == IF n < 10 THEN 1 ELSE 1 + NumDigits(n \div 10)

\* canonical form: no trailing zero in the mantissa, zero is 0 * 10^0
RECURSIVE Norm(_, _)
Norm(m, e) ==
  IF m = 0 THEN [m |-> 0, e |-> 0]
  ELSE IF m % 10 = 0 THEN Norm(m \div 10, e + 1)
  ELSE [m |-> m, e |-> e]

\* v with the sign that neg asks for
Sg(neg, v) == IF neg THEN -v ELSE v

\* q and r are the quotient and remainder of |m| by D = 10^n: round half up,
\* ties to even unless a tail lies below (sticky)
RoundUp(neg, e, q, r, D, sticky) ==
  Norm(Sg(neg, IF (2 * r > D) \/ (2 * r = D /\ (sticky \/ q % 2 = 1)) THEN q + 1 ELSE q), e)

\* drop the last n digits of m
RoundCut(m, e, sticky, n) ==
  RoundUp(m < 0, e + n, Abs(m) \div Pow10(n), Abs(m) % Pow10(n), Pow10(n), sticky)

\* round m * 10^e (plus a non-zero tail below it when sticky) to Prec digits
RoundTo(m, e, sticky) ==
  IF NumDigits(Abs(m)) <= Prec THEN Norm(m, e)
  ELSE RoundCut(m, e, sticky, NumDigits(Abs(m)) - Prec)

Num(i) == RoundTo(i, 0, FALSE)
Zero == [m |-> 0, e |-> 0]
One == [m |-> 1, e |-> 0]
Hundred == [m |-> 1, e |-> 2]

MinOf(a, b) == IF a < b THEN a ELSE b
MaxOf(a, b) == IF a < b THEN b ELSE a

\* exponent just above the leading digit of x # 0
Top(x) == x.e + NumDigits(Abs(x.m))

\* the mantissa of z over the exponent t, and whether digits were cut off
Sc(z, t) == IF z.e >= t THEN z.m * Pow10(z.e - t) ELSE z.m \div Pow10(t - z.e)
Cut(z, t) == z.e < t /\ z.m % Pow10(t - z.e) # 0

AddRound(S, t, st) == IF st /\ S < 0 THEN RoundTo(S + 1, t, TRUE) ELSE RoundTo(S, t, st)

\* x + y, exact sum rounded once.  Both operands are brought to one exponent
\* that keeps two digits below the result's last place; what is cut off the
\* smaller operand only breaks ties (sticky)
AddAt(x, y, t) == AddRound(Sc(x, t) + Sc(y, t), t, Cut(x, t) \/ Cut(y, t))
Add(x, y) ==
  IF x.m = 0 THEN y
  ELSE IF y.m = 0 THEN x
  ELSE AddAt(x, y, MaxOf(MinOf(x.e, y.e), MaxOf(Top(x), Top(y)) - (Prec + 2)))

Neg(x) == [m |-> -x.m, e |-> x.e]
Sub(x, y) == Add(x, Neg(y))

\* x * y, exact product rounded once; the product is formed in two halves of
\* six digits (H above, M below) so that no intermediate value leaves the
\* 32-bit range
MulJoin(neg, H, M, e, g) ==
  RoundTo(Sg(neg, H * Pow10(g) + M \div Pow10(6 - g)), e + 6 - g, M % Pow10(6 - g) # 0)
MulRound(neg, H, M, e) ==
  IF H = 0 THEN RoundTo(Sg(neg, M), e, FALSE)
  ELSE IF NumDigits(H) > Prec THEN RoundTo(Sg(neg, H), e + 6, M # 0)
  ELSE MulJoin(neg, H, M, e, Prec - NumDigits(H) + 1)
MulHalves(neg, hh, t, e) == MulRound(neg, hh + t \div 1000000, t % 1000000, e)
MulAbs(neg, a, b, e) ==
  MulHalves(neg, (a \div 1000) * (b \div 1000),
            ((a \div 1000) * (b % 1000) + (a % 1000) * (b \div 1000)) * 1000
              + (a % 1000) * (b % 1000),
            e)
Mul(x, y) == MulAbs((x.m < 0) # (y.m < 0), Abs(x.m), Abs(y.m), x.e + y.e)

\* k more digits of the quotient of a by d, by long division: <<quotient, remainder>>
RECURSIVE LongDiv(_, _, _, _)
LongDiv(q, r, d, k) ==
  IF k = 0 THEN <<q, r>>
  ELSE LongDiv(10 * q + (10 * r) \div d, (10 * r) % d, d, k - 1)

\* x / y for y # 0, exact quotient rounded once: both mantissas are padded to
\* Prec digits, then Prec + 1 digits of the quotient are produced
DivRound(neg, qr, e) == RoundTo(Sg(neg, qr[1]), e, qr[2] # 0)
DivAbs(neg, a, d, e) == DivRound(neg, LongDiv(a \div d, a % d, d, Prec + 1), e)
DivPad(x, y, pa, pd) ==
  DivAbs((x.m < 0) # (y.m < 0), Abs(x.m) * Pow10(pa), Abs(y.m) * Pow10(pd),
         (x.e - pa) - (y.e - pd) - (Prec + 1))
Div(x, y) ==
  IF x.m = 0 THEN Zero
  ELSE DivPad(x, y, Prec - NumDigits(Abs(x.m)), Prec - NumDigits(Abs(y.m)))

\* signs first, then magnitudes over a common exponent
Sign(x) == IF x.m < 0 THEN -1 ELSE IF x.m = 0 THEN 0 ELSE 1
LtPos(x, y) ==
  IF Top(x) # Top(y) THEN Top(x) < Top(y)
  ELSE x.m * Pow10(x.e - MinOf(x.e, y.e)) < y.m * Pow10(y.e - MinOf(x.e, y.e))
Lt(x, y) ==
  IF Sign(x) # Sign(y) THEN Sign(x) < Sign(y)
  ELSE IF Sign(x) = 0 THEN FALSE
  ELSE IF Sign(x) > 0 THEN LtPos(x, y)
  ELSE LtPos(Neg(y), Neg(x))
Le(x, y) == ~Lt(y, x)
Gt(x, y) == Lt(y, x)

MathMax(x, y) == IF Lt(x, y) THEN y ELSE x
MathMin(x, y) == IF Lt(y, x) THEN y ELSE x

clamp(n, min, max) == MathMin(max, MathMax(min, n))

----------------------------------------------------------------------------
(* Text                                                                    *)

Digits == <<"0", "1", "2", "3", "4", "5", "6", "7", "8", "9">>
DigitSet == {Digits[i] : i \in 1..10}
DigitVal(c) == (CHOOSE i \in 1..10 : Digits[i] = c) - 1

IsSpace(c) == c = " "

\* index of the last c in s, 0 when there is none (lastIndexOf + 1)
RECURSIVE LastIndexOf(_, _)
LastIndexOf(s, c) ==
  IF s = <<>> THEN 0
  ELSE IF s[Len(s)] = c THEN Len(s)
  ELSE LastIndexOf(SubSeq(s, 1, Len(s) - 1), c)

Count(s, c) == Cardinality({i \in 1..Len(s) : s[i] = c})

\* String.prototype.trim
RECURSIVE TrimLeft(_)
TrimLeft(s) == IF s # <<>> /\ IsSpace(Head(s)) THEN TrimLeft(Tail(s)) ELSE s
RECURSIVE TrimRight(_)
TrimRight(s) ==
  IF s # <<>> /\ IsSpace(s[Len(s)]) THEN TrimRight(SubSeq(s, 1, Len(s) - 1)) ELSE s
Trim(s) == TrimRight(TrimLeft(s))

\* the non-negative integer written by a sequence of digits
RECURSIVE DigitsValue(_)
DigitsValue(s) ==
  IF s = <<>> THEN 0
  ELSE 10 * DigitsValue(SubSeq(s, 1, Len(s) - 1)) + DigitVal(s[Len(s)])

\* the digits of n >= 0
RECURSIVE DigitsOf(_)
DigitsOf(n) ==
  IF n < 10 THEN <<Digits[n + 1]>> ELSE DigitsOf(n \div 10) \o <<Digits[(n % 10) + 1]>>

RECURSIVE Zeros(_)
Zeros(k) == IF k <= 0 THEN <<>> ELSE <<"0">> \o Zeros(k - 1)

\* the digits s of the mantissa (k of them) with the decimal point after
\* the n-th digit: Number::toString, radix 10
StringAt(s, k, n) ==
  IF k <= n /\ n <= 21 THEN s \o Zeros(n - k)
  ELSE IF 0 < n /\ n <= 21 THEN SubSeq(s, 1, n) \o <<".">> \o SubSeq(s, n + 1, k)
  ELSE IF -6 < n /\ n <= 0 THEN <<"0", ".">> \o Zeros(-n) \o s
  ELSE (IF k = 1 THEN s ELSE <<s[1], ".">> \o SubSeq(s, 2, k))
       \o <<"e">> \o (IF n - 1 < 0 THEN <<"-">> ELSE <<"+">>) \o DigitsOf(Abs(n - 1))
StringAbs(s, e) == StringAt(s, Len(s), e + Len(s))

\* String(x) of a number
String(x) ==
  IF x.m = 0 THEN <<"0">>
  ELSE (IF x.m < 0 THEN <<"-">> ELSE <<>>) \o StringAbs(DigitsOf(Abs(x.m)), x.e)

IsDigitOrSep(c) == c \in DigitSet \/ c = "." \/ c = ","
IsDigit(c) == c \in DigitSet
NotSpace(c) == ~IsSpace(c)

\* Number(normalized) for normalized = sign intDigits [. fracDigits]
NumberOf(neg, intDigits, fracDigits) ==
  LET v == DigitsValue(intDigits \o fracDigits)
  IN RoundTo(IF neg THEN -v ELSE v, -Len(fracDigits), FALSE)

\* the heuristic without the test that something precedes the separator
decSepOf_emptyHead(s) ==
  LET lastDot   == LastIndexOf(s, ".")
      lastComma == LastIndexOf(s, ",")
      sep       == IF lastDot > 0 THEN "." ELSE ","
      idx1      == LastIndexOf(s, sep)
  IN IF lastDot > 0 /\ lastComma > 0 THEN (IF lastDot > lastComma THEN "." ELSE ",")
     ELSE IF lastDot > 0 \/ lastComma > 0
          THEN (IF Count(s, sep) = 1 /\ Len(s) - idx1 = 3 /\ idx1 - 1 <= 3
                THEN "" ELSE sep)
     ELSE ""

\* the decimal separator parseSmartNumber settles on for s, "" standing for
\* null: the later of the two if both occur; none if the only separator
\* occurs once with exactly three characters after it and one to three before
decSepOf(s) ==
  LET lastDot   == LastIndexOf(s, ".")
      lastComma == LastIndexOf(s, ",")
      sep       == IF lastDot > 0 THEN "." ELSE ","
      idx1      == LastIndexOf(s, sep)
  IN IF lastDot > 0 /\ lastComma > 0 THEN (IF lastDot > lastComma THEN "." ELSE ",")
     ELSE IF lastDot > 0 \/ lastComma > 0
          THEN (IF Count(s, sep) = 1 /\ Len(s) - idx1 = 3 /\ idx1 - 1 > 0 /\ idx1 - 1 <= 3
                THEN "" ELSE sep)
     ELSE ""

\* intPart and fracPart once decSep is known, then Number(normalized)
parseParts(neg, s, decSep, idx) ==
  NumberOf(neg,
           SelectSeq(IF decSep # "" THEN SubSeq(s, 1, idx - 1) ELSE s, IsDigit),
           SelectSeq(IF decSep # "" THEN SubSeq(s, idx + 1, Len(s)) ELSE <<>>, IsDigit))

\* s: the text without its sign, digits and separators only
parseUnsigned(neg, s) ==
  IF s = <<>> THEN Zero ELSE parseParts(neg, s, decSepOf(s), LastIndexOf(s, decSepOf(s)))

\* s1: the trimmed text without white space
parseSigned(neg, s1) == parseUnsigned(neg, SelectSeq(IF neg THEN Tail(s1) ELSE s1, IsDigitOrSep))

parseCompact(s1) == parseSigned(s1 # <<>> /\ Head(s1) = "-", s1)

\* parseSmartNumber of a text
parseSmartNumber(v) ==
  IF Trim(v) = <<>> THEN Zero ELSE parseCompact(SelectSeq(Trim(v), NotSpace))

toNumber(v) == parseSmartNumber(v)

\* parseSmartNumber of a value that need not be a text: a number that is not
\* finite gives 0, null and undefined are read as the empty text
parseSmartNumberOf(v) ==
  IF v.kind \in {"NaN", "Infinity"} THEN Zero
  ELSE IF v.kind \in {"null", "undefined"} THEN parseSmartNumber(<<>>)
  ELSE parseSmartNumber(v.s)

\* fixed.replace(/\.?0+$/, "") on the decimals
RECURSIVE stripZeros(_)
stripZeros(frac) ==
  IF frac # <<>> /\ frac[Len(frac)] = "0" THEN stripZeros(SubSeq(frac, 1, Len(frac) - 1))
  ELSE frac
\* the integer digits, and "," with the decimals that are left
fixedText(int, frac) == int \o (IF frac = <<>> THEN <<>> ELSE <<",">> \o frac)
\* the digits ds of a count of units of 10^-k, k >= 1, as a decimal text
fixedDigits(ds, k) ==
  fixedText(SubSeq(ds, 1, Len(ds) - k), stripZeros(SubSeq(ds, Len(ds) - k + 1, Len(ds))))
fixedUnits(n, k) == fixedDigits(Zeros(k + 1 - Len(DigitsOf(n))) \o DigitsOf(n), k)
\* |x|.toFixed(6) with the trailing zeros cut: whole numbers have no decimals,
\* up to six decimals are kept, more are rounded to six
fixedAbs(m, e) ==
  IF e >= 0 THEN DigitsOf(m) \o (IF m = 0 THEN <<>> ELSE Zeros(e))
  ELSE IF e >= -6 THEN fixedUnits(m, -e)
  ELSE fixedUnits((m + 5 * Pow10(-7 - e)) \div Pow10(-6 - e), 6)

\* formatForInput(n) of a number, maxDecimals = 6
formatForInput(x) ==
  (IF x.m < 0 THEN <<"-">> ELSE <<>>) \o fixedAbs(Abs(x.m), x.e)

----------------------------------------------------------------------------
(* Line calculation and the two-way derivation helpers                     *)

\* the branches without the one that raises the unit price: a negative disc
\* is clamped to 0 like any other
deriveBranches_clampOnly(draft, unitNet, up, disc) ==
  IF Gt(up, Zero)
  THEN [draft EXCEPT !.discountRate = String(clamp(disc, Zero, Hundred))]
  ELSE [draft EXCEPT !.unitPrice = String(unitNet), !.discountRate = <<"0">>]

\* the branches of deriveFromUnitNet once unitNet, up and disc are known
deriveBranches(draft, unitNet, up, disc) ==
  IF Gt(up, Zero)
  THEN IF Lt(disc, Zero)
       THEN [draft EXCEPT !.unitPrice = String(unitNet), !.discountRate = <<"0">>]
       ELSE [draft EXCEPT !.discountRate = String(clamp(disc, Zero, Hundred))]
  ELSE [draft EXCEPT !.unitPrice = String(unitNet), !.discountRate = <<"0">>]

\* disc = 100 * (1 - unitNet / up), computed only when up > 0
deriveWith(draft, unitNet, up) ==
  deriveBranches(draft, unitNet, up,
                 IF Gt(up, Zero) THEN Mul(Hundred, Sub(One, Div(unitNet, up))) ELSE Zero)

\* deriveFromUnitNet(draft, nextUnitNet) called with a number (toNumber passes
\* a number through): draft is any record with the text fields unitPrice and
\* discountRate
deriveFromUnitNetNum(draft, nextUnitNet) ==
  deriveWith(draft, MathMax(Zero, nextUnitNet), MathMax(Zero, toNumber(draft.unitPrice)))

\* deriveFromUnitNet(draft, nextUnitNet) called with the text of an input
deriveFromUnitNet(draft, nextUnitNet) ==
  deriveFromUnitNetNum(draft, toNumber(nextUnitNet))

\* unitNet = denom > 0 ? uvi / denom : uvi
unitNetOf(uvi, denom) == IF Gt(denom, Zero) THEN Div(uvi, denom) ELSE uvi

deriveFromUnitVatIncl(draft, nextUnitVatIncl) ==
  deriveFromUnitNetNum(draft,
    unitNetOf(MathMax(Zero, toNumber(nextUnitVatIncl)),
              Add(One, Div(clamp(toNumber(draft.vatRate), Zero, Hundred), Hundred))))

\* calcLine: the returned object once the eight numbers are known
calcSums(q, up, disc, vat, unitNet, unitVatIncl, totalNet, totalVatIncl) ==
  [q |-> q, up |-> up, disc |-> disc, vat |-> vat, unitNet |-> unitNet,
   unitVatIncl |-> unitVatIncl, totalNet |-> totalNet, totalVatIncl |-> totalVatIncl,
   vatAmount |-> Sub(totalVatIncl, totalNet)]

\* totalNet = unitNet * q, totalVatIncl = unitVatIncl * q
calcTotals(q, up, disc, vat, unitNet, unitVatIncl) ==
  calcSums(q, up, disc, vat, unitNet, unitVatIncl, Mul(unitNet, q), Mul(unitVatIncl, q))

\* unitVatIncl = unitNet * (1 + vat / 100)
calcVatIncl(q, up, disc, vat, unitNet) ==
  calcTotals(q, up, disc, vat, unitNet, Mul(unitNet, Add(One, Div(vat, Hundred))))

\* unitNet = up * (1 - disc / 100)
calcNumbers(q, up, disc, vat) ==
  calcVatIncl(q, up, disc, vat, Mul(up, Sub(One, Div(disc, Hundred))))

\* calcLine({ qty, unitPrice, discountRate, vatRate }) of text fields
calcLine(ln) ==
  calcNumbers(MathMax(Zero, toNumber(ln.qty)), MathMax(Zero, toNumber(ln.unitPrice)),
              clamp(toNumber(ln.discountRate), Zero, Hundred),
              clamp(toNumber(ln.vatRate), Zero, Hundred))

----------------------------------------------------------------------------
(* Lump-discount allocation: the body shared by distributeInvoiceDiscount, *)
(* distributeCreateDiscount and saveInvoiceCreate                          *)

\* weights[i] = max(0, unitPrice) * max(0, qty)
lineWeights(invLines) ==
  [i \in 1..Len(invLines) |->
     Mul(MathMax(Zero, toNumber(invLines[i].unitPrice)),
         MathMax(Zero, toNumber(invLines[i].qty)))]

\* weights.reduce((a, b) => a + b, 0) over the first k weights
RECURSIVE sumWeights(_, _)
sumWeights(weights, k) ==
  IF k = 0 THEN Zero ELSE Add(sumWeights(weights, k - 1), weights[k])

\* (discountTotal * w) / sumW, the share of every line but the last
propShare(weights, discountTotal, i) ==
  Div(Mul(discountTotal, weights[i]), sumWeights(weights, Len(weights)))

\* the value of `allocated` when the map callback reaches index i
RECURSIVE allocatedBefore(_, _, _)
allocatedBefore(weights, discountTotal, i) ==
  IF i = 1 THEN Zero
  ELSE Add(allocatedBefore(weights, discountTotal, i - 1),
           propShare(weights, discountTotal, i - 1))

\* the last line takes the remainder
lineShare(weights, discountTotal, i) ==
  IF i = Len(weights)
  THEN Sub(discountTotal, allocatedBefore(weights, discountTotal, i))
  ELSE propShare(weights, discountTotal, i)

\* `allocated` after the last line
allocatedTotal(weights, discountTotal) ==
  Add(allocatedBefore(weights, discountTotal, Len(weights)),
      lineShare(weights, discountTotal, Len(weights)))

\* rate = gross > 0 ? (share / gross) * 100 : 0, clamped to [0, 100]
lineRate(weights, discountTotal, i) ==
  clamp(IF Gt(weights[i], Zero)
        THEN Mul(Div(lineShare(weights, discountTotal, i), weights[i]), Hundred)
        ELSE Zero,
        Zero, Hundred)

\* invLines with every discountRate replaced by its allocated rate, as text
allocateRates(invLines, discountTotal) ==
  [i \in 1..Len(invLines) |->
     [invLines[i] EXCEPT
        !.discountRate = String(lineRate(lineWeights(invLines), discountTotal, i))]]

----------------------------------------------------------------------------
(* State                                                                   *)

VARIABLES
  invoices,              \* useState(SAMPLE.invoices): sequence of invoice records
  lines,                 \* useState(SAMPLE.lines): sequence of line records
  linePanelOpen,         \* line edit panel
  editingLineId,         \* 0 stands for null
  lineDraft,             \* <<>> stands for null, <<d>> for the draft d
  invoiceModalOpen,      \* invoice screen
  activeInvoiceId,       \* 0 stands for null
  activeInvoiceLineId,   \* 0 stands for null
  invoiceDraft,          \* <<>> or <<d>>
  invoiceLineDraft,      \* <<>> or <<d>>
  invoiceCreateOpen,     \* create screen
  invoiceCreateDraft,
  invoiceCreateLines,
  supplierModalOpen,
  supplierModalOriginal,
  supplierModalDraft,
  itemModalOpen,
  itemModalOriginal,
  itemModalDraft,
  nextId,                \* uid(): the next fresh identifier
  alertMsg,              \* what the last handler passed to alert(), "" if nothing
  lastOp,                \* the handler that ran last
  ops,                   \* handlers run so far
  fin,                   \* argument of the function under study (function specifications)
  fout                   \* its result

storeVars  == <<invoices, lines>>
panelVars  == <<linePanelOpen, editingLineId, lineDraft>>
invVars    == <<invoiceModalOpen, activeInvoiceId, activeInvoiceLineId, invoiceDraft>>
createVars == <<invoiceCreateOpen, invoiceCreateDraft, invoiceCreateLines>>
supVars    == <<supplierModalOpen, supplierModalOriginal, supplierModalDraft>>
itemVars   == <<itemModalOpen, itemModalOriginal, itemModalDraft>>
fnVars     == <<fin, fout>>
vars == <<invoices, lines, linePanelOpen, editingLineId, lineDraft, invoiceModalOpen,
          activeInvoiceId, activeInvoiceLineId, invoiceDraft, invoiceLineDraft,
          invoiceCreateOpen, invoiceCreateDraft, invoiceCreateLines, supplierModalOpen,
          supplierModalOriginal, supplierModalDraft, itemModalOpen, itemModalOriginal,
          itemModalDraft, nextId, alertMsg, lastOp, ops, fin, fout>>

\* handlers run in one behaviour of the ledger
MaxOps == 3

\* a stored tevfikatRate / discountTotal is a number or a string
NumV(n) == [t |-> "number", n |-> n, s |-> <<>>]
StrV(s) == [t |-> "string", n |-> Zero, s |-> s]
\* toNumber(v) and String(v) of such a value
valNumber(v) == IF v.t = "number" THEN v.n ELSE parseSmartNumber(v.s)
valString(v) == IF v.t = "number" THEN String(v.n) ELSE v.s

UNIT_TYPES == <<"Adet", "Kg", "Lt", "Paket", "Kutu", "Hizmet", "Cift">>

Invoice(id, no, date, supplier, tev, disc) ==
  [id |-> id, invoiceNo |-> no, date |-> date, supplierName |-> supplier,
   tevfikatRate |-> tev, discountTotal |-> disc]

Line(id, invoiceId, item, qty, unitType, unitPrice, discountRate, vatRate) ==
  [id |-> id, invoiceId |-> invoiceId, invoiceItem |-> item, qty |-> qty,
   unitType |-> unitType, unitPrice |-> unitPrice, discountRate |-> discountRate,
   vatRate |-> vatRate]

\* SAMPLE: the three sample invoices and their ten lines; invA, invB, invC
\* and the lines' uid() values are the identifiers 1..13.  Names are written
\* one element per word, in ASCII.
SAMPLE ==
  [invoices |-> <<
     Invoice(1, <<"A-2025-1205">>, <<"2025-12-05">>, <<"Aras", " ", "Endustri", " ", "A.S.">>, NumV(Zero), NumV(Zero)),
     Invoice(2, <<"B-2025-1212">>, <<"2025-12-12">>, <<"Delta", " ", "Tedarik", " ", "Ltd.">>, NumV(Zero), NumV(Num(250))),
     Invoice(3, <<"C-2025-1220">>, <<"2025-12-20">>, <<"Ege", " ", "Kimya", " ", "Sanayi">>, NumV(Num(50)), NumV(Zero)) >>,
   lines |-> <<
     Line(4, 1, <<"A4", " ", "Fotokopi", " ", "Kagidi">>, <<"2", "0">>, "Paket", <<"1", "6", "5">>, <<"5">>, <<"2", "0">>),
     Line(5, 1, <<"Toner", " ", "(Siyah)">>, <<"3">>, "Adet", <<"9", "8", "0">>, <<"0">>, <<"2", "0">>),
     Line(6, 1, <<"Koli", " ", "Bandi">>, <<"1", "2">>, "Adet", <<"4", "2">>, <<"1", "0">>, <<"2", "0">>),
     Line(7, 1, <<"Zimba", " ", "Teli">>, <<"1", "5">>, "Paket", <<"2", "8">>, <<"0">>, <<"2", "0">>),
     Line(8, 2, <<"Endustriyel", " ", "Eldiven">>, <<"5", "0">>, "Cift", <<"3", "8">>, <<"0">>, <<"2", "0">>),
     Line(9, 2, <<"Maske", " ", "(FFP2)">>, <<"2", "0", "0">>, "Adet", <<"7", ",", "5">>, <<"0">>, <<"2", "0">>),
     Line(10, 2, <<"Koruyucu", " ", "Gozluk">>, <<"2", "5">>, "Adet", <<"6", "8">>, <<"0">>, <<"2", "0">>),
     Line(11, 3, <<"Temizlik", " ", "Kimyasali">>, <<"6", "0">>, "Lt", <<"5", "2">>, <<"3">>, <<"2", "0">>),
     Line(12, 3, <<"Dezenfektan">>, <<"4", "0">>, "Lt", <<"6", "4">>, <<"0">>, <<"2", "0">>),
     Line(13, 3, <<"Kopuk", " ", "Sabun">>, <<"3", "0">>, "Lt", <<"4", "8">>, <<"5">>, <<"2", "0">>) >>]

\* first identifier uid() hands out after SAMPLE was built
FirstFreeId == Len(SAMPLE.invoices) + Len(SAMPLE.lines) + 1

\* the form starts with this many blank lines
BlankLines == 5

today == <<"2026-01-01">>

\* blankInvoiceLine()
blankInvoiceLine(key) ==
  [key |-> key, invoiceItem |-> <<>>, qty |-> <<"1">>, unitType |-> UNIT_TYPES[1],
   unitPrice |-> <<>>, discountRate |-> <<>>, vatRate |-> <<"2", "0">>]

blankCreateDraft ==
  [invoiceNo |-> <<>>, date |-> today, supplierName |-> <<>>,
   tevfikatRate |-> <<"0">>, discountTotal |-> <<>>]

blankLines(first) == [i \in 1..BlankLines |-> blankInvoiceLine(first + i - 1)]

Init ==
  /\ invoices = SAMPLE.invoices
  /\ lines = SAMPLE.lines
  /\ linePanelOpen = FALSE
  /\ editingLineId = 0
  /\ lineDraft = <<>>
  /\ invoiceModalOpen = FALSE
  /\ activeInvoiceId = 0
  /\ activeInvoiceLineId = 0
  /\ invoiceDraft = <<>>
  /\ invoiceLineDraft = <<>>
  /\ invoiceCreateOpen = FALSE
  /\ invoiceCreateDraft = blankCreateDraft
  /\ invoiceCreateLines = blankLines(FirstFreeId)
  /\ supplierModalOpen = FALSE
  /\ supplierModalOriginal = <<>>
  /\ supplierModalDraft = <<>>
  /\ itemModalOpen = FALSE
  /\ itemModalOriginal = <<>>
  /\ itemModalDraft = <<>>
  /\ nextId = FirstFreeId + BlankLines
  /\ alertMsg = ""
  /\ lastOp = "init"
  /\ ops = 0
  /\ fin = <<>>
  /\ fout = <<>>

----------------------------------------------------------------------------
(* Helpers on the collections                                              *)

\* indices of the elements of seq whose id is id
IdxOf(seq, id) == {i \in 1..Len(seq) : seq[i].id = id}
HasId(seq, id) == IdxOf(seq, id) # {}
\* seq.find((x) => x.id === id), for an id that occurs
Find(seq, id) == seq[CHOOSE i \in IdxOf(seq, id) : \A j \in IdxOf(seq, id) : i <= j]

\* lines.filter((x) => x.invoiceId === invoiceId)
LinesOf(ls, invoiceId) == SelectSeq(ls, LAMBDA x : x.invoiceId = invoiceId)

\* a behaviour runs at most MaxOps handlers
Budget == ops < MaxOps

\* the bookkeeping every handler shares
Ran(op, msg) ==
  /\ ops' = ops + 1
  /\ lastOp' = op
  /\ alertMsg' = msg
  /\ UNCHANGED fnVars

\* which overlay receives the user's input
AtBase ==
  /\ ~linePanelOpen /\ ~invoiceModalOpen /\ ~invoiceCreateOpen
  /\ ~supplierModalOpen /\ ~itemModalOpen
ModalOnTop == supplierModalOpen \/ itemModalOpen
InCreate == invoiceCreateOpen /\ ~ModalOnTop
InInvoice == invoiceModalOpen /\ invoiceDraft # <<>> /\ ~invoiceCreateOpen /\ ~ModalOnTop
InPanel ==
  /\ linePanelOpen /\ lineDraft # <<>>
  /\ ~invoiceModalOpen /\ ~invoiceCreateOpen /\ ~ModalOnTop

\* the draft the invoice screen's effect builds from the active line
draftOfLine(ln) ==
  [id |-> ln.id, invoiceId |-> ln.invoiceId, invoiceItem |-> ln.invoiceItem,
   qty |-> ln.qty, unitType |-> ln.unitType, unitPrice |-> ln.unitPrice,
   discountRate |-> ln.discountRate, vatRate |-> ln.vatRate]

\* useEffect([activeInvoiceLineId, activeInvoiceLine]): the draft of the invoice
\* screen is rebuilt when another line becomes active or the active line's
\* object was replaced (touched), cleared when the active line is gone
effectLineDraft(newLines, newActiveId, touched) ==
  IF newActiveId = 0 \/ ~HasId(newLines, newActiveId) THEN <<>>
  ELSE IF newActiveId # activeInvoiceLineId \/ newActiveId \in touched
       THEN <<draftOfLine(Find(newLines, newActiveId))>>
  ELSE invoiceLineDraft

----------------------------------------------------------------------------
(* What the user types.  Every text input accepts any text; the model      *)
(* offers a few per field: blank, padded, negative, out of range, decimal. *)

NameInputs == {<<" ">>, <<" ", "Zeta">>, <<"Delta", " ", "Tedarik", " ", "Ltd.">>}
ItemInputs == {<<" ">>, <<"Toner", " ", "(Siyah)", " ">>}
LineFieldEdits ==
  {<<"qty", <<"-", "5">>>>, <<"qty", <<"0">>>>, <<"unitPrice", <<"-", "5">>>>,
   <<"unitPrice", <<"8", "0", "0">>>>, <<"discountRate", <<"1", "5", "0">>>>,
   <<"vatRate", <<"-", "5">>>>}
    \cup {<<"invoiceItem", v>> : v \in ItemInputs}
DerivedInputs == {<<"4", "0">>, <<"2", "0", "0", "0">>}
InvoiceFieldEdits ==
  {<<"tevfikatRate", <<"1", "5", "0">>>>, <<"tevfikatRate", <<"-", "5">>>>,
   <<"discountTotal", <<"-", "5">>>>, <<"discountTotal", <<"4", "0">>>>,
   <<"invoiceNo", <<" ", "N">>>>, <<"date", <<"2026-02-02">>>>}
    \cup {<<"supplierName", v>> : v \in NameInputs}

----------------------------------------------------------------------------
(* Purchases table                                                         *)

\* the draft openEditLine copies from the line ln
panelDraft(ln) ==
  [invoiceId |-> ln.invoiceId, invoiceItem |-> ln.invoiceItem,
   qty |-> ln.qty, unitType |-> ln.unitType,
   unitPrice |-> ln.unitPrice, discountRate |-> ln.discountRate,
   vatRate |-> ln.vatRate]

openEditLine(lineId) ==
  /\ Budget
  /\ AtBase
  /\ HasId(lines, lineId)
  /\ editingLineId' = lineId
  /\ lineDraft' = <<panelDraft(Find(lines, lineId))>>
  /\ linePanelOpen' = TRUE
  /\ Ran("openEditLine", "")
  /\ UNCHANGED <<storeVars, invVars, invoiceLineDraft, createVars, supVars, itemVars, nextId>>

\* a removal that also drops an invoice left without lines
removeLine_withInvoice(lineId, ok) ==
  /\ Budget
  /\ AtBase
  /\ HasId(lines, lineId)
  /\ lines' = IF ok THEN SelectSeq(lines, LAMBDA x : x.id # lineId) ELSE lines
  /\ invoices' = IF ok
                 THEN SelectSeq(invoices, LAMBDA v :
                        \E k \in 1..Len(lines) :
                          lines[k].id # lineId /\ lines[k].invoiceId = v.id)
                 ELSE invoices
  /\ invoiceLineDraft' = effectLineDraft(lines', activeInvoiceLineId, {})
  /\ Ran(IF ok THEN "removeLine" ELSE "removeLine declined", "")
  /\ UNCHANGED <<panelVars, invVars, createVars, supVars, itemVars, nextId>>

\* confirm() answers ok
removeLine(lineId, ok) ==
  /\ Budget
  /\ AtBase
  /\ HasId(lines, lineId)
  /\ lines' = IF ok THEN SelectSeq(lines, LAMBDA x : x.id # lineId) ELSE lines
  /\ invoiceLineDraft' = effectLineDraft(lines', activeInvoiceLineId, {})
  /\ Ran(IF ok THEN "removeLine" ELSE "removeLine declined", "")
  /\ UNCHANGED <<invoices, panelVars, invVars, createVars, supVars, itemVars, nextId>>

\* the draft openInvoice copies from the invoice inv
headerDraft(inv) ==
  [id |-> inv.id, invoiceNo |-> inv.invoiceNo, date |-> inv.date,
   supplierName |-> inv.supplierName,
   tevfikatRate |-> valString(inv.tevfikatRate),
   discountTotal |-> valString(inv.discountTotal)]

\* openInvoice(invoiceId): the state it sets
doOpenInvoice(invoiceId) ==
  IF ~HasId(invoices, invoiceId)
  THEN UNCHANGED <<invVars, invoiceLineDraft>>
  ELSE LET inv   == Find(invoices, invoiceId)
           own   == LinesOf(lines, invoiceId)
           first == IF own = <<>> THEN 0 ELSE own[1].id
       IN /\ activeInvoiceId' = invoiceId
          /\ invoiceDraft' = <<headerDraft(inv)>>
          /\ activeInvoiceLineId' = first
          /\ invoiceModalOpen' = TRUE
          /\ invoiceLineDraft' = effectLineDraft(lines, first, {})

\* the row's "open invoice" button
openInvoice(lineId) ==
  /\ Budget
  /\ AtBase
  /\ HasId(lines, lineId)
  /\ doOpenInvoice(Find(lines, lineId).invoiceId)
  /\ Ran("openInvoice", "")
  /\ UNCHANGED <<storeVars, panelVars, createVars, supVars, itemVars, nextId>>

----------------------------------------------------------------------------
(* Line panel                                                              *)

\* the invoice select of the panel
setLineDraftInvoice(invoiceId) ==
  /\ Budget
  /\ InPanel
  /\ HasId(invoices, invoiceId)
  /\ lineDraft' = <<[lineDraft[1] EXCEPT !.invoiceId = invoiceId]>>
  /\ Ran("setLineDraft", "")
  /\ UNCHANGED <<storeVars, linePanelOpen, editingLineId, invVars, invoiceLineDraft,
                 createVars, supVars, itemVars, nextId>>

setLineDraftField(f, v) ==
  /\ Budget
  /\ InPanel
  /\ lineDraft' = <<[lineDraft[1] EXCEPT ![f] = v]>>
  /\ Ran("setLineDraft", "")
  /\ UNCHANGED <<storeVars, linePanelOpen, editingLineId, invVars, invoiceLineDraft,
                 createVars, supVars, itemVars, nextId>>

\* the two derived inputs of the panel
setLineDraftDerived(which, raw) ==
  /\ Budget
  /\ InPanel
  /\ lineDraft' = <<IF which = "unitNet" THEN deriveFromUnitNet(lineDraft[1], raw)
                    ELSE deriveFromUnitVatIncl(lineDraft[1], raw)>>
  /\ Ran("setLineDraftDerived", "")
  /\ UNCHANGED <<storeVars, linePanelOpen, editingLineId, invVars, invoiceLineDraft,
                 createVars, supVars, itemVars, nextId>>

\* "open selected invoice" of the panel
openInvoiceFromPanel ==
  /\ Budget
  /\ InPanel
  /\ doOpenInvoice(lineDraft[1].invoiceId)
  /\ Ran("openInvoice", "")
  /\ UNCHANGED <<storeVars, panelVars, createVars, supVars, itemVars, nextId>>

closeLinePanel ==
  /\ Budget
  /\ InPanel
  /\ linePanelOpen' = FALSE
  /\ Ran("closeLinePanel", "")
  /\ UNCHANGED <<storeVars, editingLineId, lineDraft, invVars, invoiceLineDraft,
                 createVars, supVars, itemVars, nextId>>

\* the record saveLineFromPanel and saveInvoiceLineDraft write
linePayload(id, draft) ==
  Line(id, draft.invoiceId, Trim(draft.invoiceItem), draft.qty, draft.unitType,
       draft.unitPrice, draft.discountRate, draft.vatRate)

\* a map that also adds the payload when no record has its id
replaceById_orAppend(prev, payload) ==
  IF \E i \in 1..Len(prev) : prev[i].id = payload.id
  THEN [i \in 1..Len(prev) |-> IF prev[i].id = payload.id THEN payload ELSE prev[i]]
  ELSE Append(prev, payload)

\* prev.map((x) => (x.id === payload.id ? payload : x))
replaceById(prev, payload) ==
  [i \in 1..Len(prev) |-> IF prev[i].id = payload.id THEN payload ELSE prev[i]]

\* the checks with one more: a quantity that is not positive is refused
panelAlert_numeric(d) ==
  IF d.invoiceId = 0 THEN "Fatura seciniz."
  ELSE IF Trim(d.invoiceItem) = <<>> THEN "Fatura kalemi zorunludur."
  ELSE IF Le(toNumber(d.qty), Zero) THEN "Adet 0'dan buyuk olmalidir."
  ELSE ""

\* what saveLineFromPanel() alerts for the draft d ("" when it saves)
panelAlert(d) ==
  IF d.invoiceId = 0 THEN "Fatura seciniz."
  ELSE IF Trim(d.invoiceItem) = <<>> THEN "Fatura kalemi zorunludur."
  ELSE ""

\* the line collection after saveLineFromPanel() with editingLineId id, draft d
panelSaved(prev, id, d) ==
  IF panelAlert(d) # "" THEN prev ELSE replaceById(prev, linePayload(id, d))

saveLineFromPanel ==
  /\ Budget
  /\ InPanel
  /\ lines' = panelSaved(lines, editingLineId, lineDraft[1])
  /\ IF panelAlert(lineDraft[1]) # ""
     THEN UNCHANGED <<linePanelOpen, invoiceLineDraft>>
     ELSE /\ linePanelOpen' = FALSE
          /\ invoiceLineDraft' = effectLineDraft(lines', activeInvoiceLineId, {editingLineId})
  /\ Ran("saveLineFromPanel", panelAlert(lineDraft[1]))
  /\ UNCHANGED <<invoices, editingLineId, lineDraft, invVars, createVars, supVars,
                 itemVars, nextId>>

----------------------------------------------------------------------------
(* Invoice screen                                                          *)

setInvoiceDraftField(f, v) ==
  /\ Budget
  /\ InInvoice
  /\ invoiceDraft' = <<[invoiceDraft[1] EXCEPT ![f] = v]>>
  /\ Ran("setInvoiceDraft", "")
  /\ UNCHANGED <<storeVars, panelVars, invoiceModalOpen, activeInvoiceId,
                 activeInvoiceLineId, invoiceLineDraft, createVars, supVars, itemVars, nextId>>

\* the record saveInvoiceHeader writes over the invoice x
headerOf(x, d) ==
  [x EXCEPT !.invoiceNo = Trim(d.invoiceNo),
            !.date = d.date,
            !.supplierName = Trim(d.supplierName),
            !.tevfikatRate = NumV(clamp(toNumber(d.tevfikatRate), Zero, Hundred)),
            !.discountTotal = NumV(MathMax(Zero, toNumber(d.discountTotal)))]

\* the update without the test of the id: every invoice takes the header
headerSaved_everyInvoice(prev, d) ==
  IF Trim(d.supplierName) = <<>> THEN prev
  ELSE [i \in 1..Len(prev) |-> headerOf(prev[i], d)]

\* the invoice collection after saveInvoiceHeader() with draft d
headerSaved(prev, d) ==
  IF Trim(d.supplierName) = <<>> THEN prev
  ELSE [i \in 1..Len(prev) |-> IF prev[i].id = d.id THEN headerOf(prev[i], d) ELSE prev[i]]

headerAlert(d) == IF Trim(d.supplierName) = <<>> THEN "Tedarikci adi zorunludur." ELSE ""

\* onBlur of a header input
saveInvoiceHeader ==
  /\ Budget
  /\ InInvoice
  /\ invoices' = headerSaved(invoices, invoiceDraft[1])
  /\ Ran("saveInvoiceHeader", headerAlert(invoiceDraft[1]))
  /\ UNCHANGED <<lines, panelVars, invVars, invoiceLineDraft, createVars, supVars,
                 itemVars, nextId>>

\* sumW of the lines invLines
totalWeight(invLines) == sumWeights(lineWeights(invLines), Len(invLines))

\* the two validations of the allocation: no line, no positive weight
allocationAlert(count, sumW, none) ==
  IF count = 0 THEN none
  ELSE IF Le(sumW, Zero) THEN "Dagitim icin kalem tutarlari 0'dan buyuk olmalidir."
  ELSE ""

\* what distributeInvoiceDiscount(invoiceId, discountTotal) passes to alert()
distributeAlert(ls, invoiceId, discountTotal) ==
  allocationAlert(Len(LinesOf(ls, invoiceId)), totalWeight(LinesOf(ls, invoiceId)),
                  "Faturada kalem yok.")

\* the updated lines put in front of the others instead of in their places
mergeById_front(prev, updated) ==
  updated \o SelectSeq(prev, LAMBDA x : ~HasId(updated, x.id))

\* prev.map((x) => (map.has(x.id) ? map.get(x.id) : x))
mergeById(prev, updated) ==
  [i \in 1..Len(prev) |->
     IF HasId(updated, prev[i].id) THEN Find(updated, prev[i].id) ELSE prev[i]]

\* the line collection after distributeInvoiceDiscount(invoiceId, discountTotal)
distributeInvoiceDiscount(ls, invoiceId, discountTotal) ==
  IF distributeAlert(ls, invoiceId, discountTotal) # "" THEN ls
  ELSE mergeById(ls, allocateRates(LinesOf(ls, invoiceId), discountTotal))

\* the lines whose object the allocation replaced
distributed(ls, invoiceId, failed) ==
  IF failed THEN {}
  ELSE {ls[i].id : i \in {j \in 1..Len(ls) : ls[j].invoiceId = invoiceId}}

\* the click once t and the allocation's verdict are known
distributeClickWith(d, t, msg) ==
  /\ invoices' = headerSaved(invoices, d)
  /\ IF Le(t, Zero)
     THEN /\ lines' = lines
          /\ invoiceLineDraft' = invoiceLineDraft
          /\ Ran("distributeClick", "Toplam iskonto 0'dan buyuk olmalidir.")
     ELSE /\ lines' = distributeInvoiceDiscount(lines, d.id, t)
          /\ invoiceLineDraft' =
               effectLineDraft(lines', activeInvoiceLineId, distributed(lines, d.id, msg # ""))
          /\ Ran("distributeClick", IF msg # "" THEN msg ELSE headerAlert(d))

\* the "distribute discount to lines" button of the invoice screen:
\* saveInvoiceHeader(), then the test of t, then distributeInvoiceDiscount
distributeClickOn(d, t) == distributeClickWith(d, t, distributeAlert(lines, d.id, t))
distributeClick ==
  /\ Budget
  /\ InInvoice
  /\ distributeClickOn(invoiceDraft[1], MathMax(Zero, toNumber(invoiceDraft[1].discountTotal)))
  /\ UNCHANGED <<panelVars, invVars, createVars, supVars, itemVars, nextId>>

\* the reduce callback of invoiceComputed: acc plus the line's calcLine c
addSums(acc, c) ==
  [grossNet     |-> Add(acc.grossNet, Mul(c.up, c.q)),
   totalNet     |-> Add(acc.totalNet, c.totalNet),
   totalVatIncl |-> Add(acc.totalVatIncl, c.totalVatIncl),
   vatAmount    |-> Add(acc.vatAmount, c.vatAmount)]

\* invoiceLines.reduce(..., { grossNet: 0, totalNet: 0, ... }) over the first k lines
RECURSIVE invoiceSums(_, _)
invoiceSums(invLines, k) ==
  IF k = 0 THEN [grossNet |-> Zero, totalNet |-> Zero, totalVatIncl |-> Zero, vatAmount |-> Zero]
  ELSE addSums(invoiceSums(invLines, k - 1), calcLine(invLines[k]))

\* { ...sums, discountComputed, tev, withheldVat, payableVat }
withWithheld(sums, tev, withheldVat) ==
  [grossNet |-> sums.grossNet, totalNet |-> sums.totalNet,
   totalVatIncl |-> sums.totalVatIncl, vatAmount |-> sums.vatAmount,
   discountComputed |-> MathMax(Zero, Sub(sums.grossNet, sums.totalNet)),
   tev |-> tev, withheldVat |-> withheldVat,
   payableVat |-> Sub(sums.vatAmount, withheldVat)]
invoiceTotals(sums, tev) == withWithheld(sums, tev, Mul(sums.vatAmount, Div(tev, Hundred)))

\* the lines of the open invoice
invoiceLines == IF activeInvoiceId = 0 THEN <<>> ELSE LinesOf(lines, activeInvoiceId)

\* the memo the invoice screen shows
invoiceComputed ==
  invoiceTotals(invoiceSums(invoiceLines, Len(invoiceLines)),
                clamp(IF invoiceDraft = <<>> THEN Zero ELSE toNumber(invoiceDraft[1].tevfikatRate),
                      Zero, Hundred))

\* a click on a row of the invoice's line table
selectInvoiceLine(lineId) ==
  /\ Budget
  /\ InInvoice
  /\ HasId(LinesOf(lines, activeInvoiceId), lineId)
  /\ activeInvoiceLineId' = lineId
  /\ invoiceLineDraft' = effectLineDraft(lines, lineId, {})
  /\ Ran("selectInvoiceLine", "")
  /\ UNCHANGED <<storeVars, panelVars, invoiceModalOpen, activeInvoiceId, invoiceDraft,
                 createVars, supVars, itemVars, nextId>>

setInvoiceLineDraftField(f, v) ==
  /\ Budget
  /\ InInvoice
  /\ invoiceLineDraft # <<>>
  /\ invoiceLineDraft' = <<[invoiceLineDraft[1] EXCEPT ![f] = v]>>
  /\ Ran("setInvoiceLineDraft", "")
  /\ UNCHANGED <<storeVars, panelVars, invVars, createVars, supVars, itemVars, nextId>>

setInvoiceLineDraftDerived(which, raw) ==
  /\ Budget
  /\ InInvoice
  /\ invoiceLineDraft # <<>>
  /\ invoiceLineDraft' = <<IF which = "unitNet" THEN deriveFromUnitNet(invoiceLineDraft[1], raw)
                           ELSE deriveFromUnitVatIncl(invoiceLineDraft[1], raw)>>
  /\ Ran("setInvoiceLineDraftDerived", "")
  /\ UNCHANGED <<storeVars, panelVars, invVars, createVars, supVars, itemVars, nextId>>

\* what saveInvoiceLineDraft() alerts for the draft d ("" when it saves)
lineDraftAlert(d) ==
  IF Trim(d.invoiceItem) = <<>> THEN "Fatura kalemi zorunludur." ELSE ""

\* the line collection after saveInvoiceLineDraft() with draft d
lineDraftSaved(prev, d) ==
  IF lineDraftAlert(d) # "" THEN prev ELSE replaceById(prev, linePayload(d.id, d))

saveInvoiceLineDraft ==
  /\ Budget
  /\ InInvoice
  /\ invoiceLineDraft # <<>>
  /\ lines' = lineDraftSaved(lines, invoiceLineDraft[1])
  /\ IF lineDraftAlert(invoiceLineDraft[1]) # ""
     THEN UNCHANGED invoiceLineDraft
     ELSE invoiceLineDraft' =
            effectLineDraft(lines', activeInvoiceLineId, {invoiceLineDraft[1].id})
  /\ Ran("saveInvoiceLineDraft", lineDraftAlert(invoiceLineDraft[1]))
  /\ UNCHANGED <<invoices, panelVars, invVars, createVars, supVars, itemVars, nextId>>

\* the close button in the header and a click on the backdrop
closeInvoiceModal ==
  /\ Budget
  /\ InInvoice
  /\ invoiceModalOpen' = FALSE
  /\ Ran("closeInvoiceModal", "")
  /\ UNCHANGED <<storeVars, panelVars, activeInvoiceId, activeInvoiceLineId, invoiceDraft,
                 invoiceLineDraft, createVars, supVars, itemVars, nextId>>

\* the close button in the footer: saveInvoiceHeader(); setInvoiceModalOpen(false)
saveAndCloseInvoice ==
  /\ Budget
  /\ InInvoice
  /\ invoices' = headerSaved(invoices, invoiceDraft[1])
  /\ invoiceModalOpen' = FALSE
  /\ Ran("saveAndCloseInvoice", headerAlert(invoiceDraft[1]))
  /\ UNCHANGED <<lines, panelVars, activeInvoiceId, activeInvoiceLineId, invoiceDraft,
                 invoiceLineDraft, createVars, supVars, itemVars, nextId>>

----------------------------------------------------------------------------
(* Create screen                                                           *)

CreateFieldEdits ==
  {<<"supplierName", <<" ">>>>, <<"supplierName", <<" ", "Zeta">>>>,
   <<"tevfikatRate", <<"1", "5", "0">>>>, <<"discountTotal", <<"4", "0">>>>,
   <<"discountTotal", <<"-", "5">>>>, <<"invoiceNo", <<"N">>>>}
CreateLineEdits ==
  {<<"invoiceItem", <<" ">>>>, <<"invoiceItem", <<" ", "Vida">>>>,
   <<"unitPrice", <<"1", "0", "0">>>>, <<"qty", <<"3">>>>,
   <<"discountRate", <<"7">>>>, <<"vatRate", <<"-", "5">>>>}

openPurchaseCreate ==
  /\ Budget
  /\ AtBase
  /\ invoiceCreateDraft' = blankCreateDraft
  /\ invoiceCreateLines' = blankLines(nextId)
  /\ nextId' = nextId + BlankLines
  /\ invoiceCreateOpen' = TRUE
  /\ Ran("openPurchaseCreate", "")
  /\ UNCHANGED <<storeVars, panelVars, invVars, invoiceLineDraft, supVars, itemVars>>

setInvoiceCreateDraftField(f, v) ==
  /\ Budget
  /\ InCreate
  /\ invoiceCreateDraft' = [invoiceCreateDraft EXCEPT ![f] = v]
  /\ Ran("setInvoiceCreateDraft", "")
  /\ UNCHANGED <<storeVars, panelVars, invVars, invoiceLineDraft, invoiceCreateOpen,
                 invoiceCreateLines, supVars, itemVars, nextId>>

KeyIdx(key) == {i \in 1..Len(invoiceCreateLines) : invoiceCreateLines[i].key = key}

setInvoiceCreateLineField(key, f, v) ==
  /\ Budget
  /\ InCreate
  /\ KeyIdx(key) # {}
  /\ invoiceCreateLines' =
       [i \in 1..Len(invoiceCreateLines) |->
          IF invoiceCreateLines[i].key = key
          THEN [invoiceCreateLines[i] EXCEPT ![f] = v] ELSE invoiceCreateLines[i]]
  /\ Ran("setInvoiceCreateLines", "")
  /\ UNCHANGED <<storeVars, panelVars, invVars, invoiceLineDraft, invoiceCreateOpen,
                 invoiceCreateDraft, supVars, itemVars, nextId>>

setInvoiceCreateLineDerived(key, which, raw) ==
  /\ Budget
  /\ InCreate
  /\ KeyIdx(key) # {}
  /\ invoiceCreateLines' =
       [i \in 1..Len(invoiceCreateLines) |->
          IF invoiceCreateLines[i].key = key
          THEN (IF which = "unitNet" THEN deriveFromUnitNet(invoiceCreateLines[i], raw)
                ELSE deriveFromUnitVatIncl(invoiceCreateLines[i], raw))
          ELSE invoiceCreateLines[i]]
  /\ Ran("setInvoiceCreateLinesDerived", "")
  /\ UNCHANGED <<storeVars, panelVars, invVars, invoiceLineDraft, invoiceCreateOpen,
                 invoiceCreateDraft, supVars, itemVars, nextId>>

addInvoiceCreateLine ==
  /\ Budget
  /\ InCreate
  /\ invoiceCreateLines' = Append(invoiceCreateLines, blankInvoiceLine(nextId))
  /\ nextId' = nextId + 1
  /\ Ran("addInvoiceCreateLine", "")
  /\ UNCHANGED <<storeVars, panelVars, invVars, invoiceLineDraft, invoiceCreateOpen,
                 invoiceCreateDraft, supVars, itemVars>>

removeInvoiceCreateLine(key) ==
  /\ Budget
  /\ InCreate
  /\ KeyIdx(key) # {}
  /\ invoiceCreateLines' = SelectSeq(invoiceCreateLines, LAMBDA x : x.key # key)
  /\ Ran("removeInvoiceCreateLine", "")
  /\ UNCHANGED <<storeVars, panelVars, invVars, invoiceLineDraft, invoiceCreateOpen,
                 invoiceCreateDraft, supVars, itemVars, nextId>>

\* the filter without its trim: a row of white space counts as a line
meaningful_untrimmed(formLines) == SelectSeq(formLines, LAMBDA l : l.invoiceItem # <<>>)

\* the lines of the form that have an item description
meaningful(formLines) == SelectSeq(formLines, LAMBDA l : Trim(l.invoiceItem) # <<>>)

\* what distributeCreateDiscount(discountTotal) passes to alert()
distributeCreateAlert(formLines) ==
  allocationAlert(Len(meaningful(formLines)), totalWeight(meaningful(formLines)), "Kalem yok.")

\* prev.map((x) => (map.has(x._key) ? map.get(x._key) : x))
mergeByKey(prev, updated) ==
  [i \in 1..Len(prev) |->
     IF \E k \in 1..Len(updated) : updated[k].key = prev[i].key
     THEN updated[CHOOSE k \in 1..Len(updated) : updated[k].key = prev[i].key]
     ELSE prev[i]]

\* the form lines after distributeCreateDiscount(discountTotal)
distributeCreateDiscount(formLines, discountTotal) ==
  IF distributeCreateAlert(formLines) # "" THEN formLines
  ELSE mergeByKey(formLines, allocateRates(meaningful(formLines), discountTotal))

distributeCreateClickOn(t) ==
  IF Le(t, Zero)
  THEN /\ invoiceCreateLines' = invoiceCreateLines
       /\ Ran("distributeCreateClick", "Toplam iskonto 0'dan buyuk olmalidir.")
  ELSE /\ invoiceCreateLines' = distributeCreateDiscount(invoiceCreateLines, t)
       /\ Ran("distributeCreateClick", distributeCreateAlert(invoiceCreateLines))

\* the "distribute discount to lines" button of the create screen
distributeCreateClick ==
  /\ Budget
  /\ InCreate
  /\ distributeCreateClickOn(MathMax(Zero, toNumber(invoiceCreateDraft.discountTotal)))
  /\ UNCHANGED <<storeVars, panelVars, invVars, invoiceLineDraft, invoiceCreateOpen,
                 invoiceCreateDraft, supVars, itemVars, nextId>>

\* the invoice built without the clamp of the withholding rate
createdInvoice_unclamped(invId, d) ==
  Invoice(invId,
          IF Trim(d.invoiceNo) = <<>> THEN <<"INV-">> \o DigitsOf(invId) ELSE Trim(d.invoiceNo),
          d.date, Trim(d.supplierName),
          NumV(toNumber(d.tevfikatRate)),
          NumV(MathMax(Zero, toNumber(d.discountTotal))))

\* the invoice saveInvoiceCreate builds from the form; "INV-" and the
\* identifier stand for `INV-${invId.slice(0, 6)}`
createdInvoice(invId, d) ==
  Invoice(invId,
          IF Trim(d.invoiceNo) = <<>> THEN <<"INV-">> \o DigitsOf(invId) ELSE Trim(d.invoiceNo),
          d.date, Trim(d.supplierName),
          NumV(clamp(toNumber(d.tevfikatRate), Zero, Hundred)),
          NumV(MathMax(Zero, toNumber(d.discountTotal))))

\* the new lines with invoiceId taken from a second uid() instead of invId
createdLines_freshInvoiceId(invId, formLines) ==
  LET ml == meaningful(formLines)
  IN [i \in 1..Len(ml) |->
        Line(invId + i, invId + Len(ml) + 1, Trim(ml[i].invoiceItem), ml[i].qty,
             ml[i].unitType, ml[i].unitPrice, ml[i].discountRate, ml[i].vatRate)]

\* the lines saveInvoiceCreate builds: line i gets identifier invId + i
createdLines(invId, formLines) ==
  LET ml == meaningful(formLines)
  IN [i \in 1..Len(ml) |->
        Line(invId + i, invId, Trim(ml[i].invoiceItem), ml[i].qty, ml[i].unitType,
             ml[i].unitPrice, ml[i].discountRate, ml[i].vatRate)]

\* the allocation left out: the lines keep the rates of the form
createdLinesAllocated_skipped(inv, newLines) == newLines

\* ... and what becomes of them when a lump discount was entered
createdLinesAllocated(inv, newLines) ==
  IF Gt(inv.discountTotal.n, Zero) /\ Gt(totalWeight(newLines), Zero)
  THEN allocateRates(newLines, inv.discountTotal.n)
  ELSE newLines

\* setInvoices, setLines, setInvoiceCreateOpen(false)
insertCreated(inv, newLines) ==
  /\ invoices' = <<inv>> \o invoices
  /\ lines' = newLines \o lines
  /\ nextId' = nextId + 1 + Len(newLines)
  /\ invoiceCreateOpen' = FALSE
  /\ invoiceLineDraft' = effectLineDraft(lines', activeInvoiceLineId, {})
  /\ Ran("saveInvoiceCreate", "")

insertAllocated(inv, newLines) == insertCreated(inv, createdLinesAllocated(inv, newLines))

\* what saveInvoiceCreate() alerts for the form ("" when it saves)
createAlert(d, formLines) ==
  IF Trim(d.supplierName) = <<>> THEN "Tedarikci adi zorunludur."
  ELSE IF Len(meaningful(formLines)) = 0 THEN "En az 1 kalem girmelisiniz."
  ELSE ""

saveInvoiceCreate ==
  /\ Budget
  /\ InCreate
  /\ IF createAlert(invoiceCreateDraft, invoiceCreateLines) # ""
     THEN /\ Ran("saveInvoiceCreate", createAlert(invoiceCreateDraft, invoiceCreateLines))
          /\ UNCHANGED <<storeVars, invoiceCreateOpen, nextId, invoiceLineDraft>>
     ELSE insertAllocated(createdInvoice(nextId, invoiceCreateDraft),
                          createdLines(nextId, invoiceCreateLines))
  /\ UNCHANGED <<panelVars, invVars, invoiceCreateDraft, invoiceCreateLines, supVars, itemVars>>

\* the cancel button
closeInvoiceCreate ==
  /\ Budget
  /\ InCreate
  /\ invoiceCreateOpen' = FALSE
  /\ Ran("closeInvoiceCreate", "")
  /\ UNCHANGED <<storeVars, panelVars, invVars, invoiceLineDraft, invoiceCreateDraft,
                 invoiceCreateLines, supVars, itemVars, nextId>>

----------------------------------------------------------------------------
(* Supplier and item forms                                                 *)

openSupplierModal(name) ==
  /\ Budget
  /\ AtBase
  /\ \E i \in 1..Len(invoices) : invoices[i].supplierName = name
  /\ supplierModalOriginal' = name
  /\ supplierModalDraft' = name
  /\ supplierModalOpen' = TRUE
  /\ Ran("openSupplierModal", "")
  /\ UNCHANGED <<storeVars, panelVars, invVars, invoiceLineDraft, createVars, itemVars, nextId>>

setSupplierModalDraft(v) ==
  /\ Budget
  /\ supplierModalOpen
  /\ supplierModalDraft' = v
  /\ Ran("setSupplierModalDraft", "")
  /\ UNCHANGED <<storeVars, panelVars, invVars, invoiceLineDraft, createVars, itemVars,
                 supplierModalOpen, supplierModalOriginal, nextId>>

\* a save that renames the first invoice of the supplier only
saveSupplierModal_firstOnly ==
  /\ Budget
  /\ supplierModalOpen
  /\ LET next == Trim(supplierModalDraft)
     IN IF next = <<>>
        THEN /\ Ran("saveSupplierModal", "Tedarikci adi bos olamaz.")
             /\ UNCHANGED <<invoices, supplierModalOpen>>
        ELSE /\ invoices' = [i \in 1..Len(invoices) |->
                               IF /\ invoices[i].supplierName = supplierModalOriginal
                                  /\ \A j \in 1..(i - 1) :
                                       invoices[j].supplierName # supplierModalOriginal
                               THEN [invoices[i] EXCEPT !.supplierName = next]
                               ELSE invoices[i]]
             /\ supplierModalOpen' = FALSE
             /\ Ran("saveSupplierModal", "")
  /\ UNCHANGED <<lines, panelVars, invVars, invoiceLineDraft, createVars, itemVars,
                 supplierModalOriginal, supplierModalDraft, nextId>>

saveSupplierModal ==
  /\ Budget
  /\ supplierModalOpen
  /\ LET next == Trim(supplierModalDraft)
     IN IF next = <<>>
        THEN /\ Ran("saveSupplierModal", "Tedarikci adi bos olamaz.")
             /\ UNCHANGED <<invoices, supplierModalOpen>>
        ELSE /\ invoices' = [i \in 1..Len(invoices) |->
                               IF invoices[i].supplierName = supplierModalOriginal
                               THEN [invoices[i] EXCEPT !.supplierName = next]
                               ELSE invoices[i]]
             /\ supplierModalOpen' = FALSE
             /\ Ran("saveSupplierModal", "")
  /\ UNCHANGED <<lines, panelVars, invVars, invoiceLineDraft, createVars, itemVars,
                 supplierModalOriginal, supplierModalDraft, nextId>>

closeSupplierModal ==
  /\ Budget
  /\ supplierModalOpen
  /\ supplierModalOpen' = FALSE
  /\ Ran("closeSupplierModal", "")
  /\ UNCHANGED <<storeVars, panelVars, invVars, invoiceLineDraft, createVars, itemVars,
                 supplierModalOriginal, supplierModalDraft, nextId>>

openItemModal(name) ==
  /\ Budget
  /\ AtBase
  /\ \E i \in 1..Len(lines) : lines[i].invoiceItem = name
  /\ itemModalOriginal' = name
  /\ itemModalDraft' = name
  /\ itemModalOpen' = TRUE
  /\ Ran("openItemModal", "")
  /\ UNCHANGED <<storeVars, panelVars, invVars, invoiceLineDraft, createVars, supVars, nextId>>

setItemModalDraft(v) ==
  /\ Budget
  /\ itemModalOpen /\ ~supplierModalOpen
  /\ itemModalDraft' = v
  /\ Ran("setItemModalDraft", "")
  /\ UNCHANGED <<storeVars, panelVars, invVars, invoiceLineDraft, createVars, supVars,
                 itemModalOpen, itemModalOriginal, nextId>>

saveItemModal ==
  /\ Budget
  /\ itemModalOpen /\ ~supplierModalOpen
  /\ LET next == Trim(itemModalDraft)
     IN IF next = <<>>
        THEN /\ Ran("saveItemModal", "Kalem adi bos olamaz.")
             /\ UNCHANGED <<lines, itemModalOpen, invoiceLineDraft>>
        ELSE /\ lines' = [i \in 1..Len(lines) |->
                            IF lines[i].invoiceItem = itemModalOriginal
                            THEN [lines[i] EXCEPT !.invoiceItem = next]
                            ELSE lines[i]]
             /\ itemModalOpen' = FALSE
             /\ invoiceLineDraft' =
                  effectLineDraft(lines', activeInvoiceLineId,
                                  {lines[i].id : i \in {j \in 1..Len(lines) :
                                       lines[j].invoiceItem = itemModalOriginal}})
             /\ Ran("saveItemModal", "")
  /\ UNCHANGED <<invoices, panelVars, invVars, createVars, supVars,
                 itemModalOriginal, itemModalDraft, nextId>>

closeItemModal ==
  /\ Budget
  /\ itemModalOpen /\ ~supplierModalOpen
  /\ itemModalOpen' = FALSE
  /\ Ran("closeItemModal", "")
  /\ UNCHANGED <<storeVars, panelVars, invVars, invoiceLineDraft, createVars, supVars,
                 itemModalOriginal, itemModalDraft, nextId>>

\* an Escape handler that closes every overlay at once
onKeyDownEscape_closeAll ==
  /\ Budget
  /\ supplierModalOpen' = FALSE
  /\ itemModalOpen' = FALSE
  /\ invoiceCreateOpen' = FALSE
  /\ invoiceModalOpen' = FALSE
  /\ linePanelOpen' = FALSE
  /\ Ran("onKeyDown", "")
  /\ UNCHANGED <<storeVars, editingLineId, lineDraft, activeInvoiceId, activeInvoiceLineId,
                 invoiceDraft, invoiceLineDraft, invoiceCreateDraft, invoiceCreateLines,
                 supplierModalOriginal, supplierModalDraft, itemModalOriginal,
                 itemModalDraft, nextId>>

\* onKeyDown with e.key = "Escape": the first test that succeeds closes its
\* overlay and returns; none succeeds when nothing is open
onKeyDownEscape ==
  /\ Budget
  /\ supplierModalOpen' = FALSE
  /\ itemModalOpen' = (itemModalOpen /\ supplierModalOpen)
  /\ invoiceCreateOpen' = (invoiceCreateOpen /\ (supplierModalOpen \/ itemModalOpen))
  /\ invoiceModalOpen' =
       (invoiceModalOpen /\ (supplierModalOpen \/ itemModalOpen \/ invoiceCreateOpen))
  /\ linePanelOpen' =
       (linePanelOpen /\ (supplierModalOpen \/ itemModalOpen \/ invoiceCreateOpen
                          \/ invoiceModalOpen))
  /\ Ran("onKeyDown", "")
  /\ UNCHANGED <<storeVars, editingLineId, lineDraft, activeInvoiceId, activeInvoiceLineId,
                 invoiceDraft, invoiceLineDraft, invoiceCreateDraft, invoiceCreateLines,
                 supplierModalOriginal, supplierModalDraft, itemModalOriginal,
                 itemModalDraft, nextId>>

----------------------------------------------------------------------------
(* Import.  A file is a sequence of rows; a row gives the trimmed text of   *)
(* each recognised column ("" / <<>> where the cell is empty).  The handler *)
(* reads no state after the file was chosen and writes with functional     *)
(* updates, so it is one step.                                             *)

ImportRow(date, supplier, no, item, qty, unitPrice, discountRate, manualUnitNet, manualUnitVat) ==
  [date |-> date, supplierName |-> supplier, invoiceNo |-> no, invoiceItem |-> item,
   qty |-> qty, unitType |-> "", unitPrice |-> unitPrice, discountRate |-> discountRate,
   vatRate |-> <<>>, manualUnitNet |-> manualUnitNet, manualUnitVat |-> manualUnitVat]

ImportFiles ==
  { \* two rows of one invoice
    << ImportRow(<<"2026-01-05">>, <<"Zeta">>, <<"Z-1">>, <<"Vida">>, <<"2">>, <<"1", "0">>, <<>>, <<>>, <<>>),
       ImportRow(<<"2026-01-05">>, <<"Zeta">>, <<"Z-1">>, <<"Somun">>, <<"-", "5">>, <<"3">>, <<"1", "5", "0">>, <<>>, <<>>) >>,
    \* two rows without invoice number
    << ImportRow(<<"2026-01-05">>, <<"Delta", " ", "Tedarik", " ", "Ltd.">>, <<>>, <<"Vida">>, <<>>, <<>>, <<>>, <<>>, <<>>),
       ImportRow(<<"2026-01-05">>, <<"Delta", " ", "Tedarik", " ", "Ltd.">>, <<>>, <<"Vida">>, <<>>, <<"5", "0">>, <<>>, <<"4", "0">>, <<>>) >>,
    \* a row without item and one with a unit price including VAT
    << ImportRow(<<"2026-01-05">>, <<"Zeta">>, <<"Z-2">>, <<>>, <<"1">>, <<"1", "0">>, <<>>, <<>>, <<>>),
       ImportRow(<<"2026-01-06">>, <<"Zeta">>, <<"Z-2">>, <<"Pul">>, <<"1">>, <<>>, <<>>, <<>>, <<"1", "2", "0">>) >>,
    \* nothing to import
    << ImportRow(<<>>, <<"Zeta">>, <<"Z-3">>, <<"Vida">>, <<"1">>, <<"1", "0">>, <<>>, <<>>, <<>>) >> }

\* String(...).slice(0, 10)
Slice10(s) == SubSeq(s, 1, MinOf(10, Len(s)))
\* a || b for texts
OrText(a, b) == IF a = <<>> THEN b ELSE a

\* the grouping key of row idx (counted from 0)
importKey(r, idx) ==
  IF r.invoiceNo # <<>>
  THEN r.supplierName \o <<"__">> \o r.invoiceNo \o <<"__">> \o Slice10(r.date)
  ELSE r.supplierName \o <<"__">> \o Slice10(r.date) \o <<"__row">> \o DigitsOf(idx)

importedInvoice(id, r) ==
  Invoice(id, r.invoiceNo, Slice10(r.date), r.supplierName, StrV(<<"0">>), StrV(<<>>))

importedLine(id, invoiceId, r) ==
  LET ln == Line(id, invoiceId, r.invoiceItem, OrText(r.qty, <<"1">>),
                 IF r.unitType = "" THEN "Adet" ELSE r.unitType,
                 OrText(r.unitPrice, <<"0">>), OrText(r.discountRate, <<"0">>),
                 OrText(r.vatRate, <<"2", "0">>))
  IN IF r.manualUnitNet # <<>> THEN deriveFromUnitNet(ln, r.manualUnitNet)
     ELSE IF r.manualUnitVat # <<>> THEN deriveFromUnitVatIncl(ln, r.manualUnitVat)
     ELSE ln

\* row r opens the invoice invId (isNew) or joins it
importAdd(acc, r, key, isNew, invId) ==
  [invoicesToAdd |-> IF isNew THEN Append(acc.invoicesToAdd, importedInvoice(invId, r))
                     ELSE acc.invoicesToAdd,
   linesToAdd    |-> Append(acc.linesToAdd,
                            importedLine(IF isNew THEN acc.id + 1 ELSE acc.id, invId, r)),
   invoiceByKey  |-> IF isNew THEN Append(acc.invoiceByKey, <<key, invId>>)
                     ELSE acc.invoiceByKey,
   id            |-> IF isNew THEN acc.id + 2 ELSE acc.id + 1]

\* invoiceByKey.get(key): hit holds the entry of key, if any
importInto(acc, r, key, hit) ==
  importAdd(acc, r, key, hit = {},
            IF hit = {} THEN acc.id ELSE acc.invoiceByKey[CHOOSE i \in hit : TRUE][2])

\* the row filter without the test of the item description
importRow_anyItem(acc, r, key) ==
  IF r.supplierName = <<>> \/ Slice10(r.date) = <<>> THEN acc
  ELSE importInto(acc, r, key, {i \in 1..Len(acc.invoiceByKey) : acc.invoiceByKey[i][1] = key})

importRow(acc, r, key) ==
  IF r.supplierName = <<>> \/ Slice10(r.date) = <<>> \/ r.invoiceItem = <<>> THEN acc
  ELSE importInto(acc, r, key, {i \in 1..Len(acc.invoiceByKey) : acc.invoiceByKey[i][1] = key})

\* invoicesToAdd, linesToAdd, invoiceByKey and the identifier counter after
\* the first k rows
RECURSIVE importRows(_, _, _)
importRows(rows, k, firstId) ==
  IF k = 0 THEN [invoicesToAdd |-> <<>>, linesToAdd |-> <<>>, invoiceByKey |-> <<>>, id |-> firstId]
  ELSE importRow(importRows(rows, k - 1, firstId), rows[k], importKey(rows[k], k - 1))

\* a commit of the invoices that leaves the lines out
importResult_invoicesOnly(res) ==
  IF Len(res.invoicesToAdd) = 0 \/ Len(res.linesToAdd) = 0
  THEN /\ Ran("handleImportFile", "Ice aktarilacak satir bulunamadi.")
       /\ nextId' = res.id
       /\ UNCHANGED <<storeVars, invoiceLineDraft>>
  ELSE /\ invoices' = res.invoicesToAdd \o invoices
       /\ nextId' = res.id
       /\ Ran("handleImportFile", "Ice aktarildi.")
       /\ UNCHANGED <<lines, invoiceLineDraft>>

\* what the handler does with the rows it read
importResult(res) ==
  IF Len(res.invoicesToAdd) = 0 \/ Len(res.linesToAdd) = 0
  THEN /\ Ran("handleImportFile", "Ice aktarilacak satir bulunamadi.")
       /\ nextId' = res.id
       /\ UNCHANGED <<storeVars, invoiceLineDraft>>
  ELSE /\ invoices' = res.invoicesToAdd \o invoices
       /\ lines' = res.linesToAdd \o lines
       /\ nextId' = res.id
       /\ invoiceLineDraft' = effectLineDraft(lines', activeInvoiceLineId, {})
       /\ Ran("handleImportFile", "Ice aktarildi.")

\* kind: "csv", "xlsx" (the workbook is read) or "error" (reading throws)
handleImportFile(kind, rows) ==
  /\ Budget
  /\ AtBase
  /\ IF kind = "csv"
     THEN /\ Ran("handleImportFile", "CSV import prototipte sinirli.")
          /\ UNCHANGED <<storeVars, nextId, invoiceLineDraft>>
     ELSE IF kind = "error"
     THEN /\ Ran("handleImportFile", "XLSX okuma icin kutuphane yok.")
          /\ UNCHANGED <<storeVars, nextId, invoiceLineDraft>>
     ELSE importResult(importRows(rows, Len(rows), nextId))
  /\ UNCHANGED <<panelVars, invVars, createVars, supVars, itemVars>>


----------------------------------------------------------------------------
(* The ledger: every handler, from the state after construction            *)

UnitInputs == {"Kg"}
\* the files the user chooses: a .csv, a workbook that cannot be read, workbooks
ImportInputs == {<<"csv", <<>>>>, <<"error", <<>>>>} \cup {<<"xlsx", rows>> : rows \in ImportFiles}
\* the rows of the table the user clicks: of every invoice its first lines
RowsPerInvoice == 1
LineIds ==
  {lines[i].id : i \in {k \in 1..Len(lines) :
     Cardinality({j \in 1..(k - 1) : lines[j].invoiceId = lines[k].invoiceId}) < RowsPerInvoice}}
InvoiceIds == {invoices[i].id : i \in 1..Len(invoices)}
CreateKeys == {invoiceCreateLines[i].key : i \in 1..Len(invoiceCreateLines)}
\* the rows of the form the user types into
FormRows == 2
TypedKeys == {invoiceCreateLines[i].key : i \in 1..MinOf(FormRows, Len(invoiceCreateLines))}

TableNext ==
  \/ \E id \in LineIds : openEditLine(id)
  \/ \E id \in LineIds, ok \in BOOLEAN : removeLine(id, ok)
  \/ \E id \in LineIds : openInvoice(id)
  \/ openPurchaseCreate
  \/ \E i \in 1..Len(invoices) : openSupplierModal(invoices[i].supplierName)
  \/ \E id \in LineIds : openItemModal(Find(lines, id).invoiceItem)
  \/ \E f \in ImportInputs : handleImportFile(f[1], f[2])

PanelNext ==
  \/ \E id \in InvoiceIds : setLineDraftInvoice(id)
  \/ \E e \in LineFieldEdits : setLineDraftField(e[1], e[2])
  \/ \E u \in UnitInputs : setLineDraftField("unitType", u)
  \/ \E which \in {"unitNet", "unitVatIncl"}, raw \in DerivedInputs : setLineDraftDerived(which, raw)
  \/ openInvoiceFromPanel
  \/ closeLinePanel
  \/ saveLineFromPanel

InvoiceNext ==
  \/ \E e \in InvoiceFieldEdits : setInvoiceDraftField(e[1], e[2])
  \/ saveInvoiceHeader
  \/ distributeClick
  \/ \E id \in LineIds : selectInvoiceLine(id)
  \/ \E e \in LineFieldEdits : setInvoiceLineDraftField(e[1], e[2])
  \/ \E u \in UnitInputs : setInvoiceLineDraftField("unitType", u)
  \/ \E which \in {"unitNet", "unitVatIncl"}, raw \in DerivedInputs :
       setInvoiceLineDraftDerived(which, raw)
  \/ saveInvoiceLineDraft
  \/ closeInvoiceModal
  \/ saveAndCloseInvoice

CreateNext ==
  \/ \E e \in CreateFieldEdits : setInvoiceCreateDraftField(e[1], e[2])
  \/ \E k \in TypedKeys, e \in CreateLineEdits : setInvoiceCreateLineField(k, e[1], e[2])
  \/ \E k \in TypedKeys, u \in UnitInputs : setInvoiceCreateLineField(k, "unitType", u)
  \/ \E k \in TypedKeys, which \in {"unitNet", "unitVatIncl"}, raw \in DerivedInputs :
       setInvoiceCreateLineDerived(k, which, raw)
  \/ addInvoiceCreateLine
  \/ \E k \in CreateKeys : removeInvoiceCreateLine(k)
  \/ distributeCreateClick
  \/ saveInvoiceCreate
  \/ closeInvoiceCreate

ModalNext ==
  \/ \E v \in NameInputs : setSupplierModalDraft(v)
  \/ saveSupplierModal
  \/ closeSupplierModal
  \/ \E v \in ItemInputs : setItemModalDraft(v)
  \/ saveItemModal
  \/ closeItemModal

Next ==
  \/ TableNext
  \/ PanelNext
  \/ InvoiceNext
  \/ CreateNext
  \/ ModalNext
  \/ onKeyDownEscape

Spec == Init /\ [][Next]_vars

----------------------------------------------------------------------------
(* The ledger with the create screen already filled in.  Typing a form     *)
(* takes one handler per field; InitTyped starts from the states those     *)
(* handlers lead to (openPurchaseCreate, then the fields typed one by one) *)
(* with one handler left to run, or from the fresh ledger.                 *)

TypedDrafts ==
  {[blankCreateDraft EXCEPT !.supplierName = sup, !.tevfikatRate = tev, !.discountTotal = disc] :
     sup \in {<<>>, <<" ">>, <<" ", "Zeta">>},
     tev \in {<<"0">>, <<"1", "5", "0">>},
     disc \in {<<>>, <<"4", "0">>, <<"-", "5">>}}

TypedRow(item, qty, unitPrice, discountRate) ==
  [invoiceItem |-> item, qty |-> qty, unitPrice |-> unitPrice, discountRate |-> discountRate]
TypedRows1 ==
  {TypedRow(<<>>, <<"1">>, <<>>, <<>>), TypedRow(<<" ">>, <<"3">>, <<"1", "0", "0">>, <<>>),
   TypedRow(<<" ", "Vida">>, <<"3">>, <<"1", "0", "0">>, <<"7">>)}
TypedRows2 ==
  {TypedRow(<<>>, <<"1">>, <<>>, <<>>), TypedRow(<<"Somun">>, <<"1">>, <<"3", "0", "0">>, <<>>),
   TypedRow(<<"Pul">>, <<"1">>, <<"0">>, <<"7">>)}

\* the blank form of openPurchaseCreate with rows 1 and 2 typed
typedLines(first, r1, r2) ==
  [i \in 1..BlankLines |->
     LET b == blankInvoiceLine(first + i - 1)
         r == IF i = 1 THEN r1 ELSE r2
     IN IF i <= 2
        THEN [b EXCEPT !.invoiceItem = r.invoiceItem, !.qty = r.qty,
                       !.unitPrice = r.unitPrice, !.discountRate = r.discountRate]
        ELSE b]

InitTyped ==
  /\ invoices = SAMPLE.invoices
  /\ lines = SAMPLE.lines
  /\ linePanelOpen = FALSE
  /\ editingLineId = 0
  /\ lineDraft = <<>>
  /\ invoiceModalOpen = FALSE
  /\ activeInvoiceId = 0
  /\ activeInvoiceLineId = 0
  /\ invoiceDraft = <<>>
  /\ invoiceLineDraft = <<>>
  /\ \E typed \in BOOLEAN :
       /\ invoiceCreateOpen = typed
       /\ invoiceCreateDraft \in (IF typed THEN TypedDrafts ELSE {blankCreateDraft})
       /\ invoiceCreateLines \in
            (IF typed
             THEN {typedLines(FirstFreeId + BlankLines, r1, r2) : r1 \in TypedRows1, r2 \in TypedRows2}
             ELSE {blankLines(FirstFreeId)})
       /\ nextId = FirstFreeId + (IF typed THEN 2 ELSE 1) * BlankLines
       /\ lastOp = (IF typed THEN "setInvoiceCreateLines" ELSE "init")
       /\ ops = (IF typed THEN MaxOps - 1 ELSE 0)
  /\ supplierModalOpen = FALSE
  /\ supplierModalOriginal = <<>>
  /\ supplierModalDraft = <<>>
  /\ itemModalOpen = FALSE
  /\ itemModalOriginal = <<>>
  /\ itemModalDraft = <<>>
  /\ alertMsg = ""
  /\ fin = <<>>
  /\ fout = <<>>

SpecTyped == InitTyped /\ [][Next]_vars

----------------------------------------------------------------------------
(* The ledger with the supplier form already typed.  InitNamed starts from *)
(* the fresh ledger, or from the states that an import of two rows of one  *)
(* supplier without invoice number, openSupplierModal and typing the name  *)
(* lead to, with one handler left to run.                                  *)

NamedFile == CHOOSE rows \in ImportFiles : \A k \in 1..Len(rows) : rows[k].invoiceNo = <<>>
NamedImport == importRows(NamedFile, Len(NamedFile), FirstFreeId + BlankLines)
NamedDrafts == {<<" ">>, <<" ", "Zeta">>, <<"Ege", " ", "Kimya", " ", "Sanayi">>}

InitNamed ==
  \/ Init
  \/ /\ invoices = NamedImport.invoicesToAdd \o SAMPLE.invoices
     /\ lines = NamedImport.linesToAdd \o SAMPLE.lines
     /\ nextId = NamedImport.id
     /\ linePanelOpen = FALSE
     /\ editingLineId = 0
     /\ lineDraft = <<>>
     /\ invoiceModalOpen = FALSE
     /\ activeInvoiceId = 0
     /\ activeInvoiceLineId = 0
     /\ invoiceDraft = <<>>
     /\ invoiceLineDraft = <<>>
     /\ invoiceCreateOpen = FALSE
     /\ invoiceCreateDraft = blankCreateDraft
     /\ invoiceCreateLines = blankLines(FirstFreeId)
     /\ supplierModalOpen = TRUE
     /\ supplierModalOriginal \in {invoices[i].supplierName : i \in 1..Len(invoices)}
     /\ supplierModalDraft \in NamedDrafts
     /\ itemModalOpen = FALSE
     /\ itemModalOriginal = <<>>
     /\ itemModalDraft = <<>>
     /\ alertMsg = ""
     /\ lastOp = "setSupplierModalDraft"
     /\ ops = MaxOps - 1
     /\ fin = <<>>
     /\ fout = <<>>

SpecNamed == InitNamed /\ [][Next]_vars

----------------------------------------------------------------------------
(* The allocation as a function: distributeInvoiceDiscount(invoiceId, t)   *)
(* applied to a ledger that holds the lines of one invoice.  fin holds the *)
(* lines and t, fout what the function computed.                           *)

\* lines of the invoice
MaxAllocLines == 3
\* unit price and quantity of a line: weights 1, 2, 10, 100, 300 and 0
AllocRows ==
  {<<<<"1">>, <<"1">>>>, <<<<"2">>, <<"1">>>>, <<<<"1", "0">>, <<"1">>>>,
   <<<<"1", "0", "0">>, <<"1">>>>, <<<<"1", "0", "0">>, <<"3">>>>, <<<<"0">>, <<"5">>>>,
   <<<<"9", "9", "9", "9", ".", "9">>, <<"1">>>>, <<<<"0", ".", "0", "4">>, <<"1">>>>}
\* the text of the lump discount field
AllocDiscounts ==
  {<<"0">>, <<"1">>, <<"4", "0">>, <<"3", "0", ".", "1", "4", "5", "0">>, <<"7", "0", "0">>,
   <<"1", "0", "0", "0", "0">>}

AllocLine(i, row) == Line(i, 1, <<"Kalem">>, row[2], "Adet", row[1], <<"5">>, <<"2", "0">>)
AllocLines(rows) == [i \in 1..Len(rows) |-> AllocLine(i, rows[i])]
AllocInputs ==
  {[lines |-> AllocLines(rows), discountTotal |-> MathMax(Zero, toNumber(t))] :
     rows \in UNION {[1..n -> AllocRows] : n \in 1..MaxAllocLines}, t \in AllocDiscounts}

InitAlloc ==
  /\ invoices = SAMPLE.invoices
  /\ lines = SAMPLE.lines
  /\ linePanelOpen = FALSE
  /\ editingLineId = 0
  /\ lineDraft = <<>>
  /\ invoiceModalOpen = FALSE
  /\ activeInvoiceId = 0
  /\ activeInvoiceLineId = 0
  /\ invoiceDraft = <<>>
  /\ invoiceLineDraft = <<>>
  /\ invoiceCreateOpen = FALSE
  /\ invoiceCreateDraft = blankCreateDraft
  /\ invoiceCreateLines = blankLines(FirstFreeId)
  /\ supplierModalOpen = FALSE
  /\ supplierModalOriginal = <<>>
  /\ supplierModalDraft = <<>>
  /\ itemModalOpen = FALSE
  /\ itemModalOriginal = <<>>
  /\ itemModalDraft = <<>>
  /\ nextId = FirstFreeId + BlankLines
  /\ alertMsg = ""
  /\ lastOp = "init"
  /\ ops = 0
  /\ \E x \in AllocInputs : fin = <<x>>
  /\ fout = <<>>

\* share and rate of every line, and `allocated` after the last one, as the
\* map callback computes them; nothing when the function returns early
allocationOf(invLines, weights, discountTotal, msg) ==
  IF msg # "" THEN [shares |-> <<>>, rates |-> <<>>, allocated |-> Zero]
  ELSE [shares    |-> [i \in 1..Len(invLines) |-> lineShare(weights, discountTotal, i)],
        rates     |-> [i \in 1..Len(invLines) |-> lineRate(weights, discountTotal, i)],
        allocated |-> allocatedTotal(weights, discountTotal)]

applyDistribute ==
  /\ fin # <<>>
  /\ fout = <<>>
  /\ fout' = <<[alert |-> distributeAlert(fin[1].lines, 1, fin[1].discountTotal),
                lines |-> distributeInvoiceDiscount(fin[1].lines, 1, fin[1].discountTotal),
                calc  |-> allocationOf(fin[1].lines, lineWeights(fin[1].lines),
                                       fin[1].discountTotal,
                                       distributeAlert(fin[1].lines, 1, fin[1].discountTotal))]>>
  /\ lastOp' = "distributeInvoiceDiscount"
  /\ UNCHANGED <<storeVars, panelVars, invVars, invoiceLineDraft, createVars, supVars,
                 itemVars, nextId, alertMsg, ops, fin>>

NextAlloc == applyDistribute

SpecAlloc == InitAlloc /\ [][NextAlloc]_vars

----------------------------------------------------------------------------
(* The line calculator and the two derivation helpers as functions of a    *)
(* draft and of the text typed into a derived field                        *)

\* the drafts: unit price blank, 32, 165, 980; quantity 20, 7, -5;
\* discount 5, 3, 150; VAT 20, 18
LineDrafts ==
  {Line(1, 1, <<"Kalem">>, q, "Adet", up, d, v) :
     q \in {<<"2", "0">>, <<"7">>, <<"-", "5">>},
     up \in {<<>>, <<"3", "2">>, <<"1", "6", "5">>, <<"9", "8", "0">>},
     d \in {<<"5">>, <<"3">>, <<"1", "5", "0">>},
     v \in {<<"2", "0">>, <<"1", "8">>}}
\* the text typed into the discounted or the VAT-inclusive unit price
DerivedTexts ==
  {<<"3", "1">>, <<"4", "0">>, <<"2", "0", "0", "0">>, <<"1", ",", "1", "2", "5", "0">>,
   <<"0">>, <<"-", "5">>}

InitLine ==
  /\ invoices = SAMPLE.invoices
  /\ lines = SAMPLE.lines
  /\ linePanelOpen = FALSE
  /\ editingLineId = 0
  /\ lineDraft = <<>>
  /\ invoiceModalOpen = FALSE
  /\ activeInvoiceId = 0
  /\ activeInvoiceLineId = 0
  /\ invoiceDraft = <<>>
  /\ invoiceLineDraft = <<>>
  /\ invoiceCreateOpen = FALSE
  /\ invoiceCreateDraft = blankCreateDraft
  /\ invoiceCreateLines = blankLines(FirstFreeId)
  /\ supplierModalOpen = FALSE
  /\ supplierModalOriginal = <<>>
  /\ supplierModalDraft = <<>>
  /\ itemModalOpen = FALSE
  /\ itemModalOriginal = <<>>
  /\ itemModalDraft = <<>>
  /\ nextId = FirstFreeId + BlankLines
  /\ alertMsg = ""
  /\ lastOp = "init"
  /\ ops = 0
  /\ \E d \in LineDrafts, v \in DerivedTexts : fin = <<[draft |-> d, v |-> v]>>
  /\ fout = <<>>

\* the draft a function returned and what calcLine makes of it
calculated(op, d) ==
  /\ fout' = <<[draft |-> d, calc |-> calcLine(d)]>>
  /\ lastOp' = op
  /\ UNCHANGED <<storeVars, panelVars, invVars, invoiceLineDraft, createVars, supVars,
                 itemVars, nextId, alertMsg, ops, fin>>

applyCalcLine == fout = <<>> /\ calculated("calcLine", fin[1].draft)
applyDeriveFromUnitNet ==
  fout = <<>> /\ calculated("deriveFromUnitNet", deriveFromUnitNet(fin[1].draft, fin[1].v))
applyDeriveFromUnitVatIncl ==
  fout = <<>> /\ calculated("deriveFromUnitVatIncl", deriveFromUnitVatIncl(fin[1].draft, fin[1].v))

NextLine == applyCalcLine \/ applyDeriveFromUnitNet \/ applyDeriveFromUnitVatIncl

SpecLine == InitLine /\ [][NextLine]_vars

----------------------------------------------------------------------------
(* The three saves as functions of the collections and of a draft whose    *)
(* id may belong to no stored record.  fin holds the two drafts, fout the   *)
(* collections the updaters return and what the handler alerted.           *)

HeaderDrafts ==
  {[id |-> id, invoiceNo |-> <<"F", "9">>, date |-> "2025-12-20", supplierName |-> n,
    tevfikatRate |-> t, discountTotal |-> dt] :
     id \in {2, FirstFreeId}, n \in {<<"Zeta">>, <<" ">>, <<" ", "Zeta">>},
     t \in {<<"2", "0">>, <<"1", "5", "0">>}, dt \in {<<>>, <<"-", "5">>}}

SaveLineDrafts ==
  {[id |-> id, invoiceId |-> inv, invoiceItem |-> it, qty |-> q, unitType |-> "Adet",
    unitPrice |-> up, discountRate |-> <<"5">>, vatRate |-> <<"2", "0">>] :
     id \in {5, FirstFreeId}, inv \in {0, 1}, it \in {<<"Kalem">>, <<" ">>},
     q \in {<<"7">>, <<"-", "5">>}, up \in {<<"3", "2">>, <<>>}}

InitSave ==
  /\ invoices = SAMPLE.invoices
  /\ lines = SAMPLE.lines
  /\ linePanelOpen = FALSE
  /\ editingLineId = 0
  /\ lineDraft = <<>>
  /\ invoiceModalOpen = FALSE
  /\ activeInvoiceId = 0
  /\ activeInvoiceLineId = 0
  /\ invoiceDraft = <<>>
  /\ invoiceLineDraft = <<>>
  /\ invoiceCreateOpen = FALSE
  /\ invoiceCreateDraft = blankCreateDraft
  /\ invoiceCreateLines = blankLines(FirstFreeId)
  /\ supplierModalOpen = FALSE
  /\ supplierModalOriginal = <<>>
  /\ supplierModalDraft = <<>>
  /\ itemModalOpen = FALSE
  /\ itemModalOriginal = <<>>
  /\ itemModalDraft = <<>>
  /\ nextId = FirstFreeId + BlankLines
  /\ alertMsg = ""
  /\ lastOp = "init"
  /\ ops = 0
  /\ \E h \in HeaderDrafts, d \in SaveLineDrafts : fin = <<[header |-> h, line |-> d]>>
  /\ fout = <<>>

\* the collections a save returned and its alert
saved(op, invs, lns, msg) ==
  /\ fout' = <<[invoices |-> invs, lines |-> lns, alert |-> msg]>>
  /\ lastOp' = op
  /\ UNCHANGED <<storeVars, panelVars, invVars, invoiceLineDraft, createVars, supVars,
                 itemVars, nextId, alertMsg, ops, fin>>

applySaveInvoiceHeader ==
  /\ fout = <<>>
  /\ saved("saveInvoiceHeader", headerSaved(invoices, fin[1].header), lines,
           headerAlert(fin[1].header))
applySaveLineFromPanel ==
  /\ fout = <<>>
  /\ saved("saveLineFromPanel", invoices, panelSaved(lines, fin[1].line.id, fin[1].line),
           panelAlert(fin[1].line))
applySaveInvoiceLineDraft ==
  /\ fout = <<>>
  /\ saved("saveInvoiceLineDraft", invoices, lineDraftSaved(lines, fin[1].line),
           lineDraftAlert(fin[1].line))

NextSave == applySaveInvoiceHeader \/ applySaveLineFromPanel \/ applySaveInvoiceLineDraft

SpecSave == InitSave /\ [][NextSave]_vars

----------------------------------------------------------------------------
(* The row loop of the import as a function of the rows of the sheet.  fin *)
(* holds the rows, fout the invoicesToAdd, linesToAdd and invoiceByKey the  *)
(* loop built.                                                             *)

\* rows of a sheet
MaxImportRows == 2
\* cells: blank or not, and names and numbers that hold the two underscores
\* the key is joined with
ImportCells ==
  {ImportRow(d, s, n, it, <<>>, <<>>, <<>>, <<>>, <<>>) :
     d \in {<<>>, <<"2026-01-05">>},
     s \in {<<>>, <<"A">>, <<"A", "__", "B">>},
     n \in {<<>>, <<"C">>, <<"B", "__", "C">>},
     it \in {<<>>, <<"Vida">>}}

InitImport ==
  /\ invoices = SAMPLE.invoices
  /\ lines = SAMPLE.lines
  /\ linePanelOpen = FALSE
  /\ editingLineId = 0
  /\ lineDraft = <<>>
  /\ invoiceModalOpen = FALSE
  /\ activeInvoiceId = 0
  /\ activeInvoiceLineId = 0
  /\ invoiceDraft = <<>>
  /\ invoiceLineDraft = <<>>
  /\ invoiceCreateOpen = FALSE
  /\ invoiceCreateDraft = blankCreateDraft
  /\ invoiceCreateLines = blankLines(FirstFreeId)
  /\ supplierModalOpen = FALSE
  /\ supplierModalOriginal = <<>>
  /\ supplierModalDraft = <<>>
  /\ itemModalOpen = FALSE
  /\ itemModalOriginal = <<>>
  /\ itemModalDraft = <<>>
  /\ nextId = FirstFreeId + BlankLines
  /\ alertMsg = ""
  /\ lastOp = "init"
  /\ ops = 0
  /\ \E n \in 1..MaxImportRows : \E rows \in [1..n -> ImportCells] : fin = <<rows>>
  /\ fout = <<>>

applyImportRows ==
  /\ fout = <<>>
  /\ fout' = <<importRows(fin[1], Len(fin[1]), nextId)>>
  /\ lastOp' = "importRows"
  /\ UNCHANGED <<storeVars, panelVars, invVars, invoiceLineDraft, createVars, supVars,
                 itemVars, nextId, alertMsg, ops, fin>>

NextImport == applyImportRows

SpecImport == InitImport /\ [][NextImport]_vars

----------------------------------------------------------------------------
(* The number parser as a function of what is typed or passed.  fin holds  *)
(* the value, fout the number parsed, the text it was rendered as and the  *)
(* number parsed from that text.                                           *)

\* characters of a typed text
MaxTextLen == 5
ParseAlphabet == {"5", "0", ".", ","}
\* signs, white space, letters, and the examples of the documentation
ParseExtras ==
  {<<"3", ".", "8", "5", "6">>, <<"3", ",", "5", "6">>, <<"7", ",", "5">>,
   <<"-", "5">>, <<"-", ",", "5", "0", "5">>, <<"-", " ", "5", ".", "5">>,
   <<" ", "5", " ", "0", " ">>, <<" ">>, <<"x">>, <<"a", "b", "c">>, <<"-">>,
   <<"1", "e", "5">>, <<"5", "-", "5">>, <<"T", "L", " ", "1", "2", ",", "5", "0">>}
ParseTexts == UNION {[1..n -> ParseAlphabet] : n \in 0..MaxTextLen} \cup ParseExtras
ParseValues ==
  {[kind |-> "string", s |-> t] : t \in ParseTexts}
    \cup {[kind |-> k, s |-> <<>>] : k \in {"null", "undefined", "NaN", "Infinity"}}

InitParse ==
  /\ invoices = SAMPLE.invoices
  /\ lines = SAMPLE.lines
  /\ linePanelOpen = FALSE
  /\ editingLineId = 0
  /\ lineDraft = <<>>
  /\ invoiceModalOpen = FALSE
  /\ activeInvoiceId = 0
  /\ activeInvoiceLineId = 0
  /\ invoiceDraft = <<>>
  /\ invoiceLineDraft = <<>>
  /\ invoiceCreateOpen = FALSE
  /\ invoiceCreateDraft = blankCreateDraft
  /\ invoiceCreateLines = blankLines(FirstFreeId)
  /\ supplierModalOpen = FALSE
  /\ supplierModalOriginal = <<>>
  /\ supplierModalDraft = <<>>
  /\ itemModalOpen = FALSE
  /\ itemModalOriginal = <<>>
  /\ itemModalDraft = <<>>
  /\ nextId = FirstFreeId + BlankLines
  /\ alertMsg = ""
  /\ lastOp = "init"
  /\ ops = 0
  /\ \E v \in ParseValues : fin = <<v>>
  /\ fout = <<>>

\* the number n parsed, the text it is rendered as, the number read from it
parsed(op, n, text) ==
  /\ fout = <<>>
  /\ fout' = <<[n |-> n, text |-> text, again |-> parseSmartNumber(text)]>>
  /\ lastOp' = op
  /\ UNCHANGED <<storeVars, panelVars, invVars, invoiceLineDraft, createVars, supVars,
                 itemVars, nextId, alertMsg, ops, fin>>

applyParseSmartNumber == parsed("parseSmartNumber", parseSmartNumberOf(fin[1]), <<>>)
applyString == parsed("String", parseSmartNumberOf(fin[1]), String(parseSmartNumberOf(fin[1])))
applyFormatForInput ==
  parsed("formatForInput", parseSmartNumberOf(fin[1]), formatForInput(parseSmartNumberOf(fin[1])))

\* a store operation run with the text in its numeric fields: what it
\* alerted and the collections it left
storedWith(op, msg, invs, lns) ==
  /\ fout = <<>>
  /\ fin[1].kind = "string"
  /\ fout' = <<[n |-> parseSmartNumberOf(fin[1]), alert |-> msg, invoices |-> invs, lines |-> lns]>>
  /\ lastOp' = op
  /\ UNCHANGED <<storeVars, panelVars, invVars, invoiceLineDraft, createVars, supVars,
                 itemVars, nextId, alertMsg, ops, fin>>

\* the draft of the first line with t in its four numeric fields
numericLineDraft(t) ==
  [draftOfLine(lines[1]) EXCEPT !.qty = t, !.unitPrice = t, !.discountRate = t, !.vatRate = t]
\* the draft of the first invoice with t in its two numeric fields
numericHeaderDraft(t) ==
  [id |-> invoices[1].id, invoiceNo |-> invoices[1].invoiceNo, date |-> invoices[1].date,
   supplierName |-> invoices[1].supplierName, tevfikatRate |-> t, discountTotal |-> t]
\* the create form with a supplier, one row with an item, and t in every
\* numeric field
numericCreateDraft(t) ==
  [blankCreateDraft EXCEPT !.supplierName = <<"Zeta">>, !.tevfikatRate = t, !.discountTotal = t]
numericCreateLines(t) ==
  [i \in 1..BlankLines |->
     IF i = 1
     THEN [blankInvoiceLine(nextId) EXCEPT !.invoiceItem = <<"Vida">>, !.qty = t,
                                            !.unitPrice = t, !.discountRate = t, !.vatRate = t]
     ELSE blankInvoiceLine(nextId + i - 1)]
\* the lines with t as the unit price of every line of the first invoice
numericPrices(t) ==
  [k \in 1..Len(lines) |->
     IF lines[k].invoiceId = invoices[1].id THEN [lines[k] EXCEPT !.unitPrice = t] ELSE lines[k]]

applySaveLineWith ==
  storedWith("saveLineFromPanel", panelAlert(numericLineDraft(fin[1].s)), invoices,
             panelSaved(lines, lines[1].id, numericLineDraft(fin[1].s)))
applySaveHeaderWith ==
  storedWith("saveInvoiceHeader", headerAlert(numericHeaderDraft(fin[1].s)),
             headerSaved(invoices, numericHeaderDraft(fin[1].s)), lines)
applySaveCreateWith ==
  storedWith("saveInvoiceCreate",
             createAlert(numericCreateDraft(fin[1].s), numericCreateLines(fin[1].s)),
             <<createdInvoice(nextId, numericCreateDraft(fin[1].s))>> \o invoices,
             createdLinesAllocated(createdInvoice(nextId, numericCreateDraft(fin[1].s)),
                                   createdLines(nextId, numericCreateLines(fin[1].s)))
               \o lines)
applyDistributeWith ==
  storedWith("distributeInvoiceDiscount",
             distributeAlert(numericPrices(fin[1].s), invoices[1].id, Hundred), invoices,
             distributeInvoiceDiscount(numericPrices(fin[1].s), invoices[1].id, Hundred))

NextParse ==
  \/ applyParseSmartNumber \/ applyString \/ applyFormatForInput
  \/ applySaveLineWith \/ applySaveHeaderWith \/ applySaveCreateWith \/ applyDistributeWith

SpecParse == InitParse /\ [][NextParse]_vars

----------------------------------------------------------------------------
(* The earlier variant of the create screen (src/unnamed/part_000).  It     *)
(* stores numbers, reads texts with Number(), and its saveInvoiceCreate    *)
(* calls distributeInvoiceDiscount after it queued the two updaters.  The  *)
(* texts are made of digits, separators, a sign and spaces.  fin holds the *)
(* form, fout the collections after the handler and what it alerted.       *)

\* String(v).replace(",", "."): the first comma only
variantReplaceComma(s) ==
  IF \E i \in 1..Len(s) : s[i] = ","
  THEN [i \in 1..Len(s) |->
          IF s[i] = "," /\ \A j \in 1..(i - 1) : s[j] # "," THEN "." ELSE s[i]]
  ELSE s
\* u is a decimal literal without sign: digits around at most one point
variantIsLiteral(u) ==
  /\ \A i \in 1..Len(u) : u[i] \in DigitSet \cup {"."}
  /\ Count(u, ".") <= 1
  /\ \E i \in 1..Len(u) : u[i] \in DigitSet
\* Number(u) of such a literal
variantLiteral(neg, u, dot) ==
  IF dot = 0 THEN NumberOf(neg, u, <<>>)
  ELSE NumberOf(neg, SubSeq(u, 1, dot - 1), SubSeq(u, dot + 1, Len(u)))
\* Number(s) for a trimmed text, NaN read as 0
variantNumber(s) ==
  IF s = <<>> THEN Zero
  ELSE IF variantIsLiteral(IF Head(s) \in {"-", "+"} THEN Tail(s) ELSE s)
  THEN variantLiteral(Head(s) = "-", IF Head(s) \in {"-", "+"} THEN Tail(s) ELSE s,
                      LastIndexOf(IF Head(s) \in {"-", "+"} THEN Tail(s) ELSE s, "."))
  ELSE Zero
\* toNumber(v) of the variant, for a text
variantToNumber(v) == variantNumber(Trim(variantReplaceComma(v)))

\* a stored line of the variant: the numeric fields are numbers
variantLine(id, invoiceId, l) ==
  [id |-> id, invoiceId |-> invoiceId, invoiceItem |-> Trim(l.invoiceItem),
   qty |-> variantToNumber(l.qty), unitType |-> l.unitType,
   unitPrice |-> variantToNumber(l.unitPrice),
   discountRate |-> clamp(variantToNumber(l.discountRate), Zero, Hundred),
   vatRate |-> clamp(variantToNumber(l.vatRate), Zero, Hundred)]
\* the sample lines as the variant holds them
variantSampleLines ==
  [k \in 1..Len(SAMPLE.lines) |->
     variantLine(SAMPLE.lines[k].id, SAMPLE.lines[k].invoiceId, SAMPLE.lines[k])]
\* the sample invoices as the variant holds them
variantSampleInvoices ==
  [i \in 1..Len(SAMPLE.invoices) |->
     [SAMPLE.invoices[i] EXCEPT !.tevfikatRate = valNumber(@), !.discountTotal = valNumber(@)]]

\* weights of distributeInvoiceDiscount over numbers
variantWeights(invLines) ==
  [i \in 1..Len(invLines) |->
     Mul(MathMax(Zero, invLines[i].unitPrice), MathMax(Zero, invLines[i].qty))]
\* what the variant's distributeInvoiceDiscount alerts: it filters the lines
\* of the render it was created in
variantDistributeAlert(closureLines, invoiceId) ==
  allocationAlert(Len(LinesOf(closureLines, invoiceId)),
                  sumWeights(variantWeights(LinesOf(closureLines, invoiceId)),
                             Len(LinesOf(closureLines, invoiceId))),
                  "Faturada kalem yok.")
\* the lines it computed, with clamp(rate, 0, 100) as a number
variantUpdated(invLines, discountTotal) ==
  [i \in 1..Len(invLines) |->
     [invLines[i] EXCEPT !.discountRate = lineRate(variantWeights(invLines), discountTotal, i)]]
\* the updater it queues, applied to prev
variantDistributed(closureLines, prev, invoiceId, discountTotal) ==
  IF variantDistributeAlert(closureLines, invoiceId) # "" THEN prev
  ELSE mergeById(prev, variantUpdated(LinesOf(closureLines, invoiceId), discountTotal))

\* inv and newLines of the variant's saveInvoiceCreate
variantInvoice(invId, d) ==
  [id |-> invId,
   invoiceNo |-> IF Trim(d.invoiceNo) = <<>> THEN <<"INV-">> \o DigitsOf(invId)
                 ELSE Trim(d.invoiceNo),
   date |-> d.date, supplierName |-> Trim(d.supplierName),
   tevfikatRate |-> clamp(variantToNumber(d.tevfikatRate), Zero, Hundred),
   discountTotal |-> MathMax(Zero, variantToNumber(d.discountTotal))]
variantNewLines(invId, formLines) ==
  [i \in 1..Len(meaningful(formLines)) |->
     variantLine(invId + i, invId, meaningful(formLines)[i])]

\* the variant's saveInvoiceCreate on the form (d, formLines): the queued
\* updaters run on the stored collections, distributeInvoiceDiscount on the
\* lines of the current render
variantSaved(d, formLines, inv, newLines) ==
  IF createAlert(d, formLines) # ""
  THEN [alert |-> createAlert(d, formLines), invoices |-> variantSampleInvoices,
        lines |-> variantSampleLines, added |-> 0]
  ELSE [alert    |-> IF Gt(inv.discountTotal, Zero)
                     THEN variantDistributeAlert(variantSampleLines, inv.id) ELSE "",
        invoices |-> <<inv>> \o variantSampleInvoices,
        lines    |-> IF Gt(inv.discountTotal, Zero)
                     THEN variantDistributed(variantSampleLines, newLines \o variantSampleLines,
                                             inv.id, inv.discountTotal)
                     ELSE newLines \o variantSampleLines,
        added    |-> Len(newLines)]

InitVariant ==
  /\ invoices = SAMPLE.invoices
  /\ lines = SAMPLE.lines
  /\ linePanelOpen = FALSE
  /\ editingLineId = 0
  /\ lineDraft = <<>>
  /\ invoiceModalOpen = FALSE
  /\ activeInvoiceId = 0
  /\ activeInvoiceLineId = 0
  /\ invoiceDraft = <<>>
  /\ invoiceLineDraft = <<>>
  /\ invoiceCreateOpen = FALSE
  /\ invoiceCreateDraft = blankCreateDraft
  /\ invoiceCreateLines = blankLines(FirstFreeId)
  /\ supplierModalOpen = FALSE
  /\ supplierModalOriginal = <<>>
  /\ supplierModalDraft = <<>>
  /\ itemModalOpen = FALSE
  /\ itemModalOriginal = <<>>
  /\ itemModalDraft = <<>>
  /\ nextId = FirstFreeId + BlankLines
  /\ alertMsg = ""
  /\ lastOp = "init"
  /\ ops = 0
  /\ \E d \in TypedDrafts, r1 \in TypedRows1, r2 \in TypedRows2 :
       fin = <<[draft |-> d, lines |-> typedLines(FirstFreeId, r1, r2)]>>
  /\ fout = <<>>

applyVariantSaveInvoiceCreate ==
  /\ fout = <<>>
  /\ fout' = <<variantSaved(fin[1].draft, fin[1].lines, variantInvoice(nextId, fin[1].draft),
                            variantNewLines(nextId, fin[1].lines))>>
  /\ lastOp' = "saveInvoiceCreate"
  /\ UNCHANGED <<storeVars, panelVars, invVars, invoiceLineDraft, createVars, supVars,
                 itemVars, nextId, alertMsg, ops, fin>>

NextVariant == applyVariantSaveInvoiceCreate

SpecVariant == InitVariant /\ [][NextVariant]_vars

----------------------------------------------------------------------------
(* The line panel with the invoice screen opened from it: the state after *)
(* openEditLine(lineId) and the panel's "open selected invoice" button,   *)
(* from which the allocation, the close and the panel's save follow.      *)

InitPanel ==
  \/ Init
  \/ /\ invoices = SAMPLE.invoices
     /\ lines = SAMPLE.lines
     /\ nextId = FirstFreeId + BlankLines
     /\ \E i \in 1..Len(SAMPLE.lines) :
          /\ linePanelOpen = TRUE
          /\ editingLineId = SAMPLE.lines[i].id
          /\ lineDraft = <<panelDraft(SAMPLE.lines[i])>>
          /\ invoiceModalOpen = TRUE
          /\ activeInvoiceId = SAMPLE.lines[i].invoiceId
          /\ activeInvoiceLineId = LinesOf(SAMPLE.lines, SAMPLE.lines[i].invoiceId)[1].id
          /\ invoiceDraft = <<headerDraft(Find(SAMPLE.invoices, SAMPLE.lines[i].invoiceId))>>
          /\ invoiceLineDraft =
               <<draftOfLine(LinesOf(SAMPLE.lines, SAMPLE.lines[i].invoiceId)[1])>>
     /\ invoiceCreateOpen = FALSE
     /\ invoiceCreateDraft = blankCreateDraft
     /\ invoiceCreateLines = blankLines(FirstFreeId)
     /\ supplierModalOpen = FALSE
     /\ supplierModalOriginal = <<>>
     /\ supplierModalDraft = <<>>
     /\ itemModalOpen = FALSE
     /\ itemModalOriginal = <<>>
     /\ itemModalDraft = <<>>
     /\ alertMsg = ""
     /\ lastOp = "openInvoice"
     /\ ops = MaxOps - 3
     /\ fin = <<>>
     /\ fout = <<>>

SpecPanel == InitPanel /\ [][Next]_vars

----------------------------------------------------------------------------
(* The two derived inputs of the line panel, keystroke after keystroke:    *)
(* every change event applies deriveFromUnitNet or deriveFromUnitVatIncl   *)
(* to the draft the previous one left.  fin is the draft the panel took,   *)
(* fout the draft now.                                                     *)

InitEdits ==
  /\ invoices = SAMPLE.invoices
  /\ lines = SAMPLE.lines
  /\ linePanelOpen = FALSE
  /\ editingLineId = 0
  /\ lineDraft = <<>>
  /\ invoiceModalOpen = FALSE
  /\ activeInvoiceId = 0
  /\ activeInvoiceLineId = 0
  /\ invoiceDraft = <<>>
  /\ invoiceLineDraft = <<>>
  /\ invoiceCreateOpen = FALSE
  /\ invoiceCreateDraft = blankCreateDraft
  /\ invoiceCreateLines = blankLines(FirstFreeId)
  /\ supplierModalOpen = FALSE
  /\ supplierModalOriginal = <<>>
  /\ supplierModalDraft = <<>>
  /\ itemModalOpen = FALSE
  /\ itemModalOriginal = <<>>
  /\ itemModalDraft = <<>>
  /\ nextId = FirstFreeId + BlankLines
  /\ alertMsg = ""
  /\ lastOp = "init"
  /\ ops = 0
  /\ \E d \in LineDrafts : fin = <<d>> /\ fout = <<d>>

\* setLineDraft((p) => ...): the draft after one change event
edited(op, d) ==
  /\ Budget
  /\ fout' = <<d>>
  /\ lastOp' = op
  /\ ops' = ops + 1
  /\ UNCHANGED <<storeVars, panelVars, invVars, invoiceLineDraft, createVars, supVars,
                 itemVars, nextId, alertMsg, fin>>

onChangeUnitNet(raw) == edited("deriveFromUnitNet", deriveFromUnitNet(fout[1], raw))
onChangeUnitVatIncl(raw) == edited("deriveFromUnitVatIncl", deriveFromUnitVatIncl(fout[1], raw))

NextEdits ==
  \/ \E raw \in DerivedTexts : onChangeUnitNet(raw)
  \/ \E raw \in DerivedTexts : onChangeUnitVatIncl(raw)

SpecEdits == InitEdits /\ [][NextEdits]_vars

----------------------------------------------------------------------------
(* Properties of the stored collections                                    *)

\* C1: referential integrity.  In every reachable state every stored line's
\* invoiceId is the id of an invoice present in the invoice collection.
ReferentialIntegrity ==
  \A i \in 1..Len(lines) : \E j \in 1..Len(invoices) : invoices[j].id = lines[i].invoiceId

\* a new invoice was saved from the create screen together with its lines
ReferentialIntegrityWitness ==
  /\ lastOp = "saveInvoiceCreate"
  /\ alertMsg = ""
  /\ Len(invoices) = Len(SAMPLE.invoices) + 1
  /\ Len(lines) > Len(SAMPLE.lines)
  /\ lines[1].invoiceId = invoices[1].id

\* the numeric value of a stored line's fields is within the ranges of the
\* data model: quantity and unit price >= 0, both rates within [0, 100]
LineInRange(ln) ==
  /\ Le(Zero, toNumber(ln.qty))
  /\ Le(Zero, toNumber(ln.unitPrice))
  /\ Le(Zero, toNumber(ln.discountRate)) /\ Le(toNumber(ln.discountRate), Hundred)
  /\ Le(Zero, toNumber(ln.vatRate)) /\ Le(toNumber(ln.vatRate), Hundred)

\* C2: after saveLineFromPanel or saveInvoiceLineDraft succeeds, the line
\* written to the store has quantity and unit price >= 0 and discount and
\* VAT rate within [0, 100], whatever was typed into the draft.
SavedLineInRange ==
  [][(lastOp' \in {"saveLineFromPanel", "saveInvoiceLineDraft"} /\ alertMsg' = "")
       => \A i \in 1..Len(lines') :
            (i > Len(lines) \/ lines'[i] # lines[i]) => LineInRange(lines'[i])]_vars

\* C3: in every reachable state every stored invoice has a withholding rate
\* whose numeric value is within [0, 100] and a lump discount whose numeric
\* value is >= 0.
InvoiceRatesInRange ==
  \A i \in 1..Len(invoices) :
    /\ Le(Zero, valNumber(invoices[i].tevfikatRate))
    /\ Le(valNumber(invoices[i].tevfikatRate), Hundred)
    /\ Le(Zero, valNumber(invoices[i].discountTotal))

\* an invoice was created from a form that asks for 150 % withholding and a
\* negative lump discount
InvoiceRatesInRangeWitness ==
  /\ lastOp = "saveInvoiceCreate"
  /\ alertMsg = ""
  /\ invoiceCreateDraft.tevfikatRate = <<"1", "5", "0">>
  /\ invoiceCreateDraft.discountTotal = <<"-", "5">>
  /\ invoices[1].tevfikatRate = NumV(Hundred)
  /\ invoices[1].discountTotal = NumV(Zero)

\* some character of the text is not white space
HasInk(text) == \E i \in 1..Len(text) : ~IsSpace(text[i])

\* C4: in every reachable state every stored line has an item description
\* that is non-empty after trimming.
ItemNeverBlank == \A i \in 1..Len(lines) : HasInk(lines[i].invoiceItem)

\* a workbook with a row that has no item description was imported: the row
\* was left out, the other row was stored
ItemNeverBlankWitness ==
  /\ lastOp = "handleImportFile"
  /\ alertMsg = "Ice aktarildi."
  /\ Len(lines) = Len(SAMPLE.lines) + 1
  /\ lines[1].invoiceItem = <<"Pul">>

----------------------------------------------------------------------------
(* Properties of the create screen                                         *)

\* the rows of the form whose item description is not blank
InkedRows(formLines) == SelectSeq(formLines, LAMBDA l : HasInk(l.invoiceItem))

\* the first k stored lines are the k rows given, in order, under one invoice
AddedInFront(ls, rows, invId) ==
  \A i \in 1..Len(rows) :
    /\ ls[i].invoiceId = invId
    /\ ls[i].invoiceItem = Trim(rows[i].invoiceItem)
    /\ ls[i].qty = rows[i].qty
    /\ ls[i].unitPrice = rows[i].unitPrice
    /\ ls[i].vatRate = rows[i].vatRate

\* C5: saveInvoiceCreate with a supplier name that is empty after trimming,
\* or with no line whose item description is non-empty after trimming, is
\* aborted with no mutation: both collections are unchanged and the create
\* screen stays open; when it succeeds, exactly one invoice is added and
\* exactly the non-blank lines are added.
CreateAbortsOrAddsExactly ==
  [][lastOp' = "saveInvoiceCreate" =>
       IF ~HasInk(invoiceCreateDraft.supplierName) \/ InkedRows(invoiceCreateLines) = <<>>
       THEN invoices' = invoices /\ lines' = lines /\ invoiceCreateOpen'
       ELSE /\ Len(invoices') = Len(invoices) + 1
            /\ SubSeq(invoices', 2, Len(invoices')) = invoices
            /\ \A j \in 1..Len(invoices) : invoices[j].id # invoices'[1].id
            /\ Len(lines') = Len(lines) + Len(InkedRows(invoiceCreateLines))
            /\ SubSeq(lines', Len(InkedRows(invoiceCreateLines)) + 1, Len(lines')) = lines
            /\ AddedInFront(lines', InkedRows(invoiceCreateLines), invoices'[1].id)]_vars

\* the save was refused because the only row with text holds white space
CreateAbortsOrAddsExactlyWitness ==
  /\ lastOp = "saveInvoiceCreate"
  /\ alertMsg = "En az 1 kalem girmelisiniz."
  /\ invoiceCreateOpen
  /\ HasInk(invoiceCreateDraft.supplierName)
  /\ \E i \in 1..Len(invoiceCreateLines) : invoiceCreateLines[i].invoiceItem = <<" ">>
  /\ invoices = SAMPLE.invoices
  /\ lines = SAMPLE.lines

\* C6: saveInvoiceCreate with a lump discount > 0 and lines of positive
\* total weight runs the allocation on the new lines before they are
\* inserted: the stored lines carry the allocated rates, not the typed ones.
CreateStoresAllocatedRates ==
  [][(/\ lastOp' = "saveInvoiceCreate"
      /\ alertMsg' = ""
      /\ Gt(toNumber(invoiceCreateDraft.discountTotal), Zero)
      /\ Gt(totalWeight(InkedRows(invoiceCreateLines)), Zero))
       => \A i \in 1..Len(InkedRows(invoiceCreateLines)) :
            lines'[i].discountRate =
              String(lineRate(lineWeights(InkedRows(invoiceCreateLines)),
                              toNumber(invoiceCreateDraft.discountTotal), i))]_vars

\* a row typed with rate 7 was stored with another rate, the allocated one
CreateStoresAllocatedRatesWitness ==
  /\ lastOp = "saveInvoiceCreate"
  /\ alertMsg = ""
  /\ invoiceCreateDraft.discountTotal = <<"4", "0">>
  /\ \E i \in 1..Len(invoiceCreateLines) :
       /\ invoiceCreateLines[i].invoiceItem = <<" ", "Vida">>
       /\ invoiceCreateLines[i].discountRate = <<"7">>
  /\ lines[1].invoiceItem = <<"Vida">>
  /\ lines[1].discountRate # <<"7">>

----------------------------------------------------------------------------
(* Properties of the discount allocation                                   *)

\* C7: allocation exactness.  For lines that all have positive weight and
\* any discountTotal >= 0, the shares allocated by distributeInvoiceDiscount
\* sum exactly to discountTotal.
AllocationExact ==
  (/\ fout # <<>>
   /\ fout[1].alert = ""
   /\ \A i \in 1..Len(fin[1].lines) : Gt(lineWeights(fin[1].lines)[i], Zero))
    => fout[1].calc.allocated = fin[1].discountTotal

\* the invoice the draft of the invoice screen belongs to has no line, or
\* only lines of weight 0
NothingToAllocate ==
  \/ LinesOf(lines, invoiceDraft[1].id) = <<>>
  \/ ~Gt(totalWeight(LinesOf(lines, invoiceDraft[1].id)), Zero)

\* C8: allocation failure mutates nothing.  When the distribute button of
\* the invoice screen is used on an invoice without lines, or whose lines
\* all have weight 0, an error is reported and neither the line collection
\* nor the invoice collection changes.
AllocationFailureMutatesNothing ==
  [][(lastOp' = "distributeClick" /\ NothingToAllocate)
       => alertMsg' # "" /\ lines' = lines /\ invoices' = invoices]_vars

\* C9: allocation frame.  distributeInvoiceDiscount(invoiceId, d) keeps the
\* number and order of the lines, changes only the discountRate of lines of
\* invoiceId, leaves the lines of every other invoice as they are, and does
\* not touch the invoice collection: after the click the invoices are what
\* the header save of the same click alone leaves.
AllocationFrame ==
  [][lastOp' = "distributeClick" =>
       /\ Len(lines') = Len(lines)
       /\ \A i \in 1..Len(lines) :
            /\ [lines'[i] EXCEPT !.discountRate = lines[i].discountRate] = lines[i]
            /\ lines[i].invoiceId # invoiceDraft[1].id => lines'[i] = lines[i]
       /\ invoices' = headerSaved(invoices, invoiceDraft[1])]_vars

\* the lump discount of an invoice was spread over its line: the line has a
\* new rate, the lines of the other invoices have the rates they had
AllocationFrameWitness ==
  /\ lastOp = "distributeClick"
  /\ alertMsg = ""
  /\ Len(lines) = Len(SAMPLE.lines)
  /\ \E i \in 1..Len(lines) :
       /\ lines[i].invoiceId = activeInvoiceId
       /\ lines[i].discountRate # SAMPLE.lines[i].discountRate
  /\ \E i \in 1..Len(lines) :
       /\ lines[i].invoiceId # activeInvoiceId
       /\ lines[i] = SAMPLE.lines[i]

\* C10: proportional allocation.  When 0 <= discountTotal <= sum of the
\* weights, distributeInvoiceDiscount gives every line of positive weight
\* the same rate 100 x discountTotal / sumW, the last line included, and
\* every line of weight 0 the rate 0.
AllocationProportional ==
  (/\ fout # <<>>
   /\ fout[1].alert = ""
   /\ Le(fin[1].discountTotal, totalWeight(fin[1].lines)))
    => \A i \in 1..Len(fin[1].lines) :
         fout[1].calc.rates[i] =
           IF Gt(lineWeights(fin[1].lines)[i], Zero)
           THEN Div(Mul(Hundred, fin[1].discountTotal), totalWeight(fin[1].lines))
           ELSE Zero

----------------------------------------------------------------------------
(* Properties of the line calculator and of the derivation helpers         *)

\* C11: resolver guarantee.  For any draft and any requested value >= 0,
\* calcLine of the draft returned by deriveFromUnitNet(draft, v) has
\* unitNet = v, and calcLine of the draft returned by
\* deriveFromUnitVatIncl(draft, v) has unitVatIncl = v; the returned text
\* fields are re-parsed by calcLine.
ResolverGuarantee ==
  (fout # <<>> /\ Le(Zero, toNumber(fin[1].v)))
    => /\ lastOp = "deriveFromUnitNet" => fout[1].calc.unitNet = toNumber(fin[1].v)
       /\ lastOp = "deriveFromUnitVatIncl" => fout[1].calc.unitVatIncl = toNumber(fin[1].v)

\* the requested net price and the current unit price, as numbers >= 0
RequestedNet == MathMax(Zero, toNumber(fin[1].v))
CurrentPrice == MathMax(Zero, toNumber(fin[1].draft.unitPrice))

\* C12: deriveFromUnitNet replaces the unit price (with the requested net
\* price, discount rate 0) exactly when the requested net price exceeds the
\* current unit price or the current unit price is 0; otherwise the unit
\* price and all other fields are untouched and only the discount rate
\* changes, to 100 x (1 - newUnitNet / unitPrice) within [0, 100].
DeriveReplacesPriceExactlyWhen ==
  (fout # <<>> /\ lastOp = "deriveFromUnitNet")
    => IF Gt(RequestedNet, CurrentPrice) \/ CurrentPrice = Zero
       THEN fout[1].draft = [fin[1].draft EXCEPT !.unitPrice = String(RequestedNet),
                                                 !.discountRate = <<"0">>]
       ELSE /\ [fout[1].draft EXCEPT !.discountRate = fin[1].draft.discountRate] = fin[1].draft
            /\ Le(Zero, Mul(Hundred, Sub(One, Div(RequestedNet, CurrentPrice))))
            /\ Le(Mul(Hundred, Sub(One, Div(RequestedNet, CurrentPrice))), Hundred)
            /\ fout[1].draft.discountRate =
                 String(Mul(Hundred, Sub(One, Div(RequestedNet, CurrentPrice))))

\* a net price of 2000 was requested of a draft priced 165: the price is
\* now 2000 and the discount 0
DeriveReplacesPriceExactlyWhenWitness ==
  /\ fout # <<>>
  /\ lastOp = "deriveFromUnitNet"
  /\ fin[1].draft.unitPrice = <<"1", "6", "5">>
  /\ fin[1].v = <<"2", "0", "0", "0">>
  /\ fout[1].draft.unitPrice = <<"2", "0", "0", "0">>
  /\ fout[1].draft.discountRate = <<"0">>

\* C13: calcLine is total and equals the reference formulas on clamped
\* inputs: for all inputs totalVatIncl = totalNet x (1 + vat / 100),
\* totalNet <= unitPrice x quantity, unitNet <= unitPrice and
\* vatAmount >= 0.
CalcLineIdentities ==
  fout # <<>>
    => /\ fout[1].calc.q = MathMax(Zero, toNumber(fout[1].draft.qty))
       /\ fout[1].calc.up = MathMax(Zero, toNumber(fout[1].draft.unitPrice))
       /\ fout[1].calc.disc = clamp(toNumber(fout[1].draft.discountRate), Zero, Hundred)
       /\ fout[1].calc.vat = clamp(toNumber(fout[1].draft.vatRate), Zero, Hundred)
       /\ fout[1].calc.totalVatIncl =
            Mul(fout[1].calc.totalNet, Add(One, Div(fout[1].calc.vat, Hundred)))
       /\ Le(fout[1].calc.totalNet, Mul(fout[1].calc.up, fout[1].calc.q))
       /\ Le(fout[1].calc.unitNet, fout[1].calc.up)
       /\ Le(Zero, fout[1].calc.vatAmount)

----------------------------------------------------------------------------
(* Properties of the invoice screen and of the stores                      *)

\* C14: invoice aggregation.  For the lines of the open invoice and any
\* withholding-rate text, invoiceComputed has withheldVat = vatAmount x
\* rate / 100 with the rate clamped to [0, 100], withheldVat + payableVat =
\* vatAmount, 0 <= withheldVat <= vatAmount, totalVatIncl = totalNet +
\* vatAmount and discountComputed = grossNet - totalNet >= 0, the sums
\* ranging over exactly the lines stored with the invoice's id.
InvoiceAggregation ==
  (invoiceModalOpen /\ invoiceDraft # <<>>)
    => /\ invoiceLines = LinesOf(lines, invoiceDraft[1].id)
       /\ invoiceComputed.withheldVat =
            Mul(invoiceComputed.vatAmount,
                Div(clamp(toNumber(invoiceDraft[1].tevfikatRate), Zero, Hundred), Hundred))
       /\ Add(invoiceComputed.withheldVat, invoiceComputed.payableVat) = invoiceComputed.vatAmount
       /\ Le(Zero, invoiceComputed.withheldVat)
       /\ Le(invoiceComputed.withheldVat, invoiceComputed.vatAmount)
       /\ invoiceComputed.totalVatIncl = Add(invoiceComputed.totalNet, invoiceComputed.vatAmount)
       /\ invoiceComputed.discountComputed =
            Sub(invoiceComputed.grossNet, invoiceComputed.totalNet)
       /\ Le(Zero, invoiceComputed.discountComputed)

\* C15: idempotence of the header update.  Calling saveInvoiceHeader a
\* second time with the same valid draft leaves the invoice collection as
\* the first call left it, and a call never changes an invoice other than
\* the one whose id is the draft's, nor any line.
HeaderSaveIdempotent ==
  [][lastOp' = "saveInvoiceHeader" =>
       /\ lines' = lines
       /\ Len(invoices') = Len(invoices)
       /\ \A i \in 1..Len(invoices) :
            invoices[i].id # invoiceDraft[1].id => invoices'[i] = invoices[i]
       /\ invoiceDraft' = invoiceDraft
       /\ alertMsg' = "" => headerSaved(invoices', invoiceDraft'[1]) = invoices']_vars

\* a header typed with 150 % withholding was saved: the invoice now holds
\* 100, the others hold what they held
HeaderSaveIdempotentWitness ==
  /\ lastOp = "saveInvoiceHeader"
  /\ alertMsg = ""
  /\ invoiceDraft[1].tevfikatRate = <<"1", "5", "0">>
  /\ \E i \in 1..Len(invoices) :
       /\ invoices[i].id = invoiceDraft[1].id
       /\ invoices[i].tevfikatRate = NumV(Hundred)
       /\ invoices[i] # SAMPLE.invoices[i]
       /\ \A j \in 1..Len(invoices) : j # i => invoices[j] = SAMPLE.invoices[j]

\* the id of the draft a save used, and whether a stored record has it
SavedDraftId ==
  IF lastOp = "saveInvoiceHeader" THEN fin[1].header.id ELSE fin[1].line.id
SavedDraftFound ==
  IF lastOp = "saveInvoiceHeader"
  THEN \E i \in 1..Len(invoices) : invoices[i].id = SavedDraftId
  ELSE \E k \in 1..Len(lines) : lines[k].id = SavedDraftId
\* the draft passes the handler's own checks
SavedDraftValid ==
  IF lastOp = "saveInvoiceHeader" THEN Trim(fin[1].header.supplierName) # <<>>
  ELSE IF lastOp = "saveLineFromPanel"
  THEN fin[1].line.invoiceId # 0 /\ Trim(fin[1].line.invoiceItem) # <<>>
  ELSE Trim(fin[1].line.invoiceItem) # <<>>

Without(s, k) == SubSeq(s, 1, k - 1) \o SubSeq(s, k + 1, Len(s))

\* C17: a confirmed removeLine(id) removes exactly the line with that id:
\* every other line, in its place, and every invoice is unchanged, also
\* when the removed line was the last one of its invoice; a declined one
\* changes nothing.
RemoveLineExact ==
  [][/\ lastOp' = "removeLine" =>
          /\ invoices' = invoices
          /\ \E k \in 1..Len(lines) :
               /\ lines' = Without(lines, k)
               /\ \A j \in 1..Len(lines') : lines'[j].id # lines[k].id
     /\ lastOp' = "removeLine declined" => (invoices' = invoices /\ lines' = lines)]_vars

\* the last line of an invoice was removed and the invoice is still stored
RemoveLineExactWitness ==
  /\ lastOp = "removeLine"
  /\ invoices = SAMPLE.invoices
  /\ \E i \in 1..Len(invoices) :
       \A k \in 1..Len(lines) : lines[k].invoiceId # invoices[i].id

\* C18: bulk supplier rename.  saveSupplierModal with a name that is not
\* blank after trimming gives the trimmed name to every invoice whose
\* supplier name equals the original one and changes no other invoice, no
\* other field and no line; with a blank name it changes nothing.
SupplierRenameBulk ==
  [][lastOp' = "saveSupplierModal" =>
       /\ lines' = lines
       /\ Len(invoices') = Len(invoices)
       /\ \A i \in 1..Len(invoices) :
            invoices'[i] =
              IF /\ Trim(supplierModalDraft) # <<>>
                 /\ invoices[i].supplierName = supplierModalOriginal
              THEN [invoices[i] EXCEPT !.supplierName = Trim(supplierModalDraft)]
              ELSE invoices[i]]_vars

\* three invoices of one supplier took the typed name, trimmed, and the
\* invoices of the other suppliers kept theirs
SupplierRenameBulkWitness ==
  /\ lastOp = "saveSupplierModal"
  /\ alertMsg = ""
  /\ supplierModalDraft = <<" ", "Zeta">>
  /\ Cardinality({i \in 1..Len(invoices) : invoices[i].supplierName = <<"Zeta">>}) = 3
  /\ \A i \in 1..Len(invoices) : invoices[i].supplierName # supplierModalOriginal
  /\ \E i \in 1..Len(invoices) : invoices[i] = SAMPLE.invoices[1]

----------------------------------------------------------------------------
(* Properties of the import                                                *)

\* the row is skipped: supplier name, date or item is missing
Skipped(r) == r.supplierName = <<>> \/ Slice10(r.date) = <<>> \/ r.invoiceItem = <<>>
\* the rows of the sheet that are not skipped, in their order
KeptRows == SelectSeq(fin[1], LAMBDA r : ~Skipped(r))
\* two rows with an invoice number and the same supplier, number and date
SameInvoiceKey(a, b) ==
  /\ a.invoiceNo # <<>> /\ b.invoiceNo # <<>>
  /\ a.supplierName = b.supplierName
  /\ a.invoiceNo = b.invoiceNo
  /\ Slice10(a.date) = Slice10(b.date)

\* C19: import grouping.  Skipped rows produce no line and every other row
\* produces one, in order; two of these rows land in the same new invoice
\* exactly when both have an invoice number and equal (supplier, invoice
\* number, date), so a row without invoice number is alone in its invoice.
ImportGrouping ==
  fout # <<>> =>
    /\ Len(fout[1].linesToAdd) = Len(KeptRows)
    /\ \A a \in 1..Len(fout[1].linesToAdd) :
         /\ fout[1].linesToAdd[a].invoiceItem = KeptRows[a].invoiceItem
         /\ \E i \in 1..Len(fout[1].invoicesToAdd) :
              fout[1].invoicesToAdd[i].id = fout[1].linesToAdd[a].invoiceId
    /\ \A a, b \in 1..Len(fout[1].linesToAdd) :
         a < b =>
           ((fout[1].linesToAdd[a].invoiceId = fout[1].linesToAdd[b].invoiceId)
              <=> SameInvoiceKey(KeptRows[a], KeptRows[b]))

\* invs and lns are prev with ni invoices and nl lines added in front, every
\* added line of an added invoice and every added invoice with an added line
AddedTogether(prevInvs, prevLns, invs, lns, ni, nl) ==
  /\ ni >= 1 /\ nl >= 1
  /\ SubSeq(invs, ni + 1, Len(invs)) = prevInvs
  /\ SubSeq(lns, nl + 1, Len(lns)) = prevLns
  /\ \A k \in 1..nl : \E i \in 1..ni : lns[k].invoiceId = invs[i].id
  /\ \A i \in 1..ni : \E k \in 1..nl : lns[k].invoiceId = invs[i].id

\* C20: import atomicity.  An import adds its new invoices together with
\* their lines, or (the file is not a workbook, reading fails, no usable row)
\* leaves both collections as they were: never invoices without their
\* lines or lines without their invoices.
ImportAtomic ==
  [][lastOp' = "handleImportFile" =>
       IF alertMsg' = "Ice aktarildi."
       THEN AddedTogether(invoices, lines, invoices', lines',
                          Len(invoices') - Len(invoices), Len(lines') - Len(lines))
       ELSE invoices' = invoices /\ lines' = lines]_vars

\* a sheet of two rows of one invoice was imported in front of the samples
ImportAtomicWitness ==
  /\ lastOp = "handleImportFile"
  /\ alertMsg = "Ice aktarildi."
  /\ Len(invoices) = Len(SAMPLE.invoices) + 1
  /\ Len(lines) = Len(SAMPLE.lines) + 2
  /\ lines[1].invoiceId = invoices[1].id
  /\ lines[2].invoiceId = invoices[1].id
  /\ SubSeq(invoices, 2, Len(invoices)) = SAMPLE.invoices

----------------------------------------------------------------------------
(* Properties of the number parser                                         *)

\* C21: parser idempotence on canonical output.  Rendering the parsed
\* number as String(n) or as formatForInput(n) and parsing that text again
\* gives the parsed number.
ParserIdempotent ==
  (fout # <<>> /\ lastOp \in {"String", "formatForInput"}) => fout[1].again = fout[1].n

\* the positions of the separators of t
SeparatorsOf(t, c) == {i \in 1..Len(t) : t[i] = c}
AllSeparators(t) == SeparatorsOf(t, ".") \cup SeparatorsOf(t, ",")
LastOf(S) == CHOOSE k \in S : \A j \in S : j <= k
\* the reference rule: the position of the decimal separator, 0 when the text
\* has none
RefDecimalAt(t) ==
  IF AllSeparators(t) = {} THEN 0
  ELSE IF SeparatorsOf(t, ".") # {} /\ SeparatorsOf(t, ",") # {} THEN LastOf(AllSeparators(t))
  ELSE IF /\ Cardinality(AllSeparators(t)) = 1
          /\ LastOf(AllSeparators(t)) - 1 \in 1..3
          /\ Len(t) - LastOf(AllSeparators(t)) = 3
       THEN 0
  ELSE LastOf(AllSeparators(t))
\* the digits of t from position a to position b
DigitsIn(t, a, b) == SelectSeq(SubSeq(t, a, b), LAMBDA c : c \in DigitSet)
\* the number the reference rule reads
RefValue(t) ==
  IF RefDecimalAt(t) = 0 THEN NumberOf(FALSE, DigitsIn(t, 1, Len(t)), <<>>)
  ELSE NumberOf(FALSE, DigitsIn(t, 1, RefDecimalAt(t) - 1),
                DigitsIn(t, RefDecimalAt(t) + 1, Len(t)))
OnlyDigitsAndSeparators(t) == \A i \in 1..Len(t) : t[i] \in DigitSet \cup {".", ","}

\* C22: separator disambiguation.  On a text of digits, '.' and ','
\* parseSmartNumber reads what the reference rule reads: with both
\* separators the later one is the decimal separator and the other is
\* dropped; a single separator that occurs once with 1 to 3 digits before it
\* and exactly 3 after it is a thousands separator, otherwise its last
\* occurrence is the decimal separator.  "3.856" is 3856, "3,56" is 3.56 and
\* "7,5" is 7.5.
SeparatorRule ==
  (fout # <<>> /\ fin[1].kind = "string" /\ OnlyDigitsAndSeparators(fin[1].s)) =>
     /\ fout[1].n = RefValue(fin[1].s)
     /\ fin[1].s = <<"3", ".", "8", "5", "6">> => fout[1].n = Num(3856)
     /\ fin[1].s = <<"3", ",", "5", "6">> => fout[1].n = RoundTo(356, -2, FALSE)
     /\ fin[1].s = <<"7", ",", "5">> => fout[1].n = RoundTo(75, -1, FALSE)

\* a text with both separators, the comma last, was parsed
SeparatorRuleWitness ==
  /\ fout # <<>>
  /\ lastOp = "parseSmartNumber"
  /\ fin[1].s = <<"5", ".", "0", ",", "5">>
  /\ fout[1].n = RoundTo(505, -1, FALSE)

\* the stores a store operation ran on in this specification
StoreOps == {"saveLineFromPanel", "saveInvoiceHeader", "saveInvoiceCreate",
             "distributeInvoiceDiscount"}
\* the argument is a text with a digit in it
HasDigit == fin[1].kind = "string" /\ \E i \in 1..Len(fin[1].s) : fin[1].s[i] \in DigitSet
\* the number is one of the finite numbers
IsFiniteNumber(n) == n.m \in Int /\ n.e \in Int /\ n = RoundTo(n.m, n.e, FALSE)

\* C23 as stated: parseSmartNumber returns a finite number for every
\* argument, 0 when the argument is empty or has no digit, and no store
\* operation is rejected because of what a numeric text field holds.
ParserTotalNothingRejected ==
  fout # <<>> =>
    /\ IsFiniteNumber(fout[1].n)
    /\ ~HasDigit => fout[1].n = Zero
    /\ lastOp \in StoreOps => fout[1].alert = ""

\* C23, amended: parseSmartNumber returns a finite number for every
\* argument, 0 when the argument is empty or has no digit; saveLineFromPanel,
\* saveInvoiceHeader and saveInvoiceCreate are not rejected whatever the
\* numeric fields hold and store the texts or the clamped numbers; the
\* allocation is rejected exactly when the prices it parsed give no positive
\* weight, and then it leaves the lines alone.
ParserTotal ==
  fout # <<>> =>
    /\ IsFiniteNumber(fout[1].n)
    /\ ~HasDigit => fout[1].n = Zero
    /\ lastOp \in StoreOps \ {"distributeInvoiceDiscount"} => fout[1].alert = ""
    /\ lastOp = "saveLineFromPanel" => fout[1].lines[1].qty = fin[1].s
    /\ lastOp = "saveInvoiceHeader" =>
         fout[1].invoices[1].tevfikatRate = NumV(clamp(fout[1].n, Zero, Hundred))
    /\ lastOp = "saveInvoiceCreate" =>
         /\ fout[1].invoices[1].discountTotal = NumV(MathMax(Zero, fout[1].n))
         /\ fout[1].lines[1].qty = fin[1].s
    /\ lastOp = "distributeInvoiceDiscount" =>
         /\ (fout[1].alert = "") = Gt(fout[1].n, Zero)
         /\ fout[1].alert # "" => fout[1].lines = numericPrices(fin[1].s)

\* a line was saved with a text without digits in its numeric fields
ParserTotalWitness ==
  /\ fout # <<>>
  /\ lastOp = "saveLineFromPanel"
  /\ fin[1].s = <<"a", "b", "c">>
  /\ fout[1].n = Zero
  /\ fout[1].alert = ""
  /\ fout[1].lines[1].unitPrice = <<"a", "b", "c">>

----------------------------------------------------------------------------
(* Properties of the earlier variant                                       *)

\* the rows of the form that become lines, as the variant stores them
VariantRows == variantNewLines(nextId, fin[1].lines)

\* C24: in the variant, saveInvoiceCreate with a lump discount > 0 and
\* lines of positive total weight leaves the new lines in the store with
\* the allocated discount rates.
VariantCreateStoresAllocatedRates ==
  (/\ fout # <<>>
   /\ fout[1].added > 0
   /\ Gt(variantToNumber(fin[1].draft.discountTotal), Zero)
   /\ Gt(sumWeights(variantWeights(VariantRows), Len(VariantRows)), Zero))
    => \A i \in 1..Len(VariantRows) :
         fout[1].lines[i].discountRate =
           lineRate(variantWeights(VariantRows),
                    MathMax(Zero, variantToNumber(fin[1].draft.discountTotal)), i)

----------------------------------------------------------------------------
(* Further properties of the create screen, the allocation and the overlays *)

\* C25: saveInvoiceCreate with a lump discount > 0 whose non-blank lines all
\* have weight 0 is a validation error: it is reported and the operation is
\* aborted, no invoice and no line is inserted.
CreateRejectsZeroWeight ==
  [][(/\ lastOp' = "saveInvoiceCreate"
      /\ Gt(toNumber(invoiceCreateDraft.discountTotal), Zero)
      /\ Len(InkedRows(invoiceCreateLines)) > 0
      /\ Le(totalWeight(InkedRows(invoiceCreateLines)), Zero))
       => (alertMsg' # "" /\ invoices' = invoices /\ lines' = lines)]_vars

\* the discount the invoice screen recomputes from the stored lines:
\* grossNet - totalNet of the memo
discountComputedOf(invLines) ==
  invoiceTotals(invoiceSums(invLines, Len(invLines)), Zero).discountComputed

\* C26: allocation saturation.  For any discountTotal >= 0 every rate that
\* distributeInvoiceDiscount writes is within [0,100]; when discountTotal
\* exceeds the sum of the weights, every line of positive weight, the last
\* one included, gets the rate 100, and the discount recomputed from the
\* stored lines is the sum of the weights.
AllocationSaturates ==
  (fout # <<>> /\ fout[1].alert = "") =>
    /\ \A i \in 1..Len(fout[1].calc.rates) :
         Le(Zero, fout[1].calc.rates[i]) /\ Le(fout[1].calc.rates[i], Hundred)
    /\ Gt(fin[1].discountTotal, totalWeight(fin[1].lines)) =>
         /\ \A i \in 1..Len(fin[1].lines) :
              Gt(lineWeights(fin[1].lines)[i], Zero) => fout[1].calc.rates[i] = Hundred
         /\ discountComputedOf(fout[1].lines) = totalWeight(fin[1].lines)

\* the line panel holds the draft it took from the line of the initial
\* ledger, nothing was typed into it, and the stored line is no longer that
\* line
PanelDraftIsStale ==
  /\ linePanelOpen
  /\ lineDraft # <<>>
  /\ HasId(SAMPLE.lines, editingLineId)
  /\ lineDraft[1] = panelDraft(Find(SAMPLE.lines, editingLineId))
  /\ HasId(lines, editingLineId)
  /\ Find(lines, editingLineId) # Find(SAMPLE.lines, editingLineId)

\* C27: no stale-draft overwrite through the line panel.  When the stored
\* line changed after the panel took its draft (the invoice screen was
\* opened from the panel, distributeInvoiceDiscount rewrote the line's
\* discount rate, the invoice screen was closed), saveLineFromPanel does not
\* put the line back to the values captured when the panel was opened.
NoStaleDraftOverwrite ==
  [][(lastOp' = "saveLineFromPanel" /\ PanelDraftIsStale)
       => Find(lines', editingLineId) # Find(SAMPLE.lines, editingLineId)]_vars

\* C28: end-to-end allocation round trip.  After distributeInvoiceDiscount
\* succeeds with 0 < d <= sum of the weights, the discount the invoice
\* screen recomputes from the stored lines (grossNet - totalNet, calcLine
\* parsing the stored discount-rate texts again) is d.
AllocationRoundTrip ==
  (/\ fout # <<>>
   /\ fout[1].alert = ""
   /\ Gt(fin[1].discountTotal, Zero)
   /\ Le(fin[1].discountTotal, totalWeight(fin[1].lines)))
    => discountComputedOf(fout[1].lines) = fin[1].discountTotal

\* C29: across any sequence of edits of the derived fields of one draft,
\* each keystroke applying deriveFromUnitNet or deriveFromUnitVatIncl to the
\* previous result, the unit price of the draft never decreases, its
\* discount rate stays within [0, 100], and its quantity and VAT rate never
\* change.  The fields are texts; their values are what toNumber reads.
DerivedEditsKeepDraftSane ==
  [][/\ Le(toNumber(fout[1].unitPrice), toNumber(fout'[1].unitPrice))
     /\ Le(Zero, toNumber(fout'[1].discountRate))
     /\ Le(toNumber(fout'[1].discountRate), Hundred)
     /\ fout'[1].qty = fout[1].qty
     /\ fout'[1].vatRate = fout[1].vatRate]_vars

\* the overlays in the order the Escape handler tests them
Overlays ==
  <<supplierModalOpen, itemModalOpen, invoiceCreateOpen, invoiceModalOpen, linePanelOpen>>

\* C30: Escape closing order.  Each Escape key press closes exactly one
\* overlay, the first that is open in the order supplier modal, item modal,
\* invoice-create screen, invoice screen, line panel; it does nothing when
\* none is open, leaves every lower-priority overlay open, and never changes
\* the invoice or line collections.
EscapeClosesFirstOpen ==
  [][lastOp' = "onKeyDown" =>
       /\ invoices' = invoices
       /\ lines' = lines
       /\ (\A i \in 1..5 : ~Overlays[i]) => Overlays' = Overlays
       /\ \A i \in 1..5 :
            (Overlays[i] /\ \A j \in 1..(i - 1) : ~Overlays[j])
              => Overlays' = [Overlays EXCEPT ![i] = FALSE]]_vars

\* Escape was pressed while the invoice screen lay over the line panel it
\* was opened from: the invoice screen is closed, the panel is still open
EscapeClosesFirstOpenWitness ==
  /\ lastOp = "onKeyDown"
  /\ ~invoiceModalOpen
  /\ invoiceDraft # <<>>
  /\ linePanelOpen
  /\ lineDraft # <<>>

====
